---- MODULE Spec2Model ----
(***************************************************************************)
(* Model of tokio-metrics' task instrumentation (src/src/task.rs):         *)
(* TaskMonitor / RawMetrics (the registry of eight wrapping counters),     *)
(* Instrumented<T>::poll, State::measure_wake / measure_poll /             *)
(* measure_poll_time, the ArcWake relay, TaskMonitor::intervals, nested    *)
(* wraps, and the derived metrics of TaskMetrics.                          *)
(*                                                                         *)
(* Time is the tokio clock in nanoseconds.  u64 is scaled down to the      *)
(* range 0 .. U64Modulus-1 so that both counter wraparound and             *)
(* "elapsed time does not fit in u64" are reachable.                       *)
(***************************************************************************)
EXTENDS Integers, Sequences, FiniteSets, TLC

\* ---------------------------------------------------------------- bounds
\* Scaled-down stand-in for 2^64 (the width of AtomicU64 / u64).
U64Modulus == 3
\* Number of instrumented tasks of the monitor.
NumTasks == 2
\* Execution steps the scheduler gives to the tasks, in total.
MaxPolls == 3
\* Notifications delivered through substituted notifiers, in total.
MaxNotifies == 2
\* Notifications in the specifications of several tasks, of the atomic
\* operations of a step and of several readers, in total.
MaxWakes == 1
\* Distinct scheduler-supplied wakers.
NumWakers == 1
\* The nonzero slow-poll threshold (ns) a monitor is constructed with.
MaxThreshold == 2
\* Reads of the registry by its readers, all together: advances of the
\* interval iterators and calls of cumulative().
MaxAdvances == 3
\* Reads of the registry followed load by load; calls of cumulative() by
\* the second reader.
MaxReads == 1

U64Max == U64Modulus - 1
\* Scaled-down stand-in for 2^32 (the width of u32): narrower than u64.
U32Modulus == U64Modulus - 1
\* The clock runs from 0 to MaxTime ns: one tick past what fits in u64.
MaxTime == U64Modulus + 1
Tasks == 1 .. NumTasks
Wakers == 1 .. NumWakers
Thresholds == {0, MaxThreshold}
NoWaker == 0
None == -1

\* ------------------------------------------------------- pure operators
Fields ==
    {"tasks_count", "schedule_count", "fast_polls_count", "slow_polls_count",
     "time_to_first_poll_ns_total", "scheduled_ns_total",
     "fast_poll_ns_total", "slow_poll_ns_total"}

\* u128 -> u64 `try_into()` succeeds
TryIntoU64Ok(n) == n <= U64Max

\* mutant of WrappingAdd: the addition saturates at u64::MAX
WrappingAdd_Saturating(a, b) == IF a + b > U64Max THEN U64Max ELSE a + b

WrappingAdd(a, b) == (a + b) % U64Modulus

\* mutant of WrappingSub: the absolute difference
WrappingSub_AbsDiff(a, b) == IF a >= b THEN a - b ELSE b - a

WrappingSub(a, b) == (a + U64Modulus - b) % U64Modulus

\* mutant of FetchAdd: the counter is overwritten with the amount (a store
\* where the code has a read-modify-write)
FetchAdd_Store(m, f, amount) == [m EXCEPT ![f] = amount % U64Modulus]

\* AtomicU64::fetch_add on one counter of the registry
FetchAdd(m, f, amount) == [m EXCEPT ![f] = WrappingAdd(@, amount)]

\* RawMetrics as constructed by with_slow_poll_threshold
NewRawMetrics == [f \in Fields |-> 0]

\* RawMetrics::metrics / TaskMonitor::cumulative: one load per counter
Metrics(m) ==
    [num_tasks                   |-> m.tasks_count,
     num_scheduled               |-> m.schedule_count,
     num_fast_polls              |-> m.fast_polls_count,
     num_slow_polls              |-> m.slow_polls_count,
     total_time_to_first_poll_ns |-> m.time_to_first_poll_ns_total,
     total_time_scheduled_ns     |-> m.scheduled_ns_total,
     total_time_fast_poll_ns     |-> m.fast_poll_ns_total,
     total_time_slow_poll_ns     |-> m.slow_poll_ns_total]

SnapshotFields == DOMAIN Metrics(NewRawMetrics)

\* mutant of Sub: saturating instead of wrapping subtraction
Sub_Saturating(self, prev) ==
    [f \in DOMAIN self |-> IF self[f] >= prev[f] THEN self[f] - prev[f] ELSE 0]

\* impl Sub for TaskMetrics
Sub(self, prev) ==
    [num_tasks |-> WrappingSub(self.num_tasks, prev.num_tasks),
     num_scheduled |-> WrappingSub(self.num_scheduled, prev.num_scheduled),
     num_fast_polls |-> WrappingSub(self.num_fast_polls, prev.num_fast_polls),
     num_slow_polls |-> WrappingSub(self.num_slow_polls, prev.num_slow_polls),
     total_time_to_first_poll_ns |->
         WrappingSub(self.total_time_to_first_poll_ns, prev.total_time_to_first_poll_ns),
     total_time_scheduled_ns |->
         WrappingSub(self.total_time_scheduled_ns, prev.total_time_scheduled_ns),
     total_time_fast_poll_ns |->
         WrappingSub(self.total_time_fast_poll_ns, prev.total_time_fast_poll_ns),
     total_time_slow_poll_ns |->
         WrappingSub(self.total_time_slow_poll_ns, prev.total_time_slow_poll_ns)]

\* outcome of a call: a value, or a panic
Returned(v) == [panicked |-> FALSE, value |-> v]

Panicked == [panicked |-> TRUE, value |-> 0]

\* `n as u32` (the `as _` of mean_time_to_first_poll): truncation
AsU32(n) == n % U32Modulus

\* Duration / u32 (core::time): panics when the divisor is 0
DurationDivU32(ns, rhs) ==
    IF rhs = 0 THEN Panicked ELSE Returned(ns \div rhs)

\* u64 / u64 followed by Duration::from_nanos; the divisor is nonzero at
\* every use
FromNanosDiv(ns, count) == Returned(ns \div count)

\* TaskMetrics::mean_time_to_first_poll
mean_time_to_first_poll(self) ==
    IF self.num_tasks = 0 THEN Returned(0)
    ELSE DurationDivU32(self.total_time_to_first_poll_ns, AsU32(self.num_tasks))

\* TaskMetrics::mean_time_scheduled
mean_time_scheduled(self) ==
    IF self.num_scheduled = 0 THEN Returned(0)
    ELSE FromNanosDiv(self.total_time_scheduled_ns, self.num_scheduled)

\* TaskMetrics::mean_fast_polls
mean_fast_polls(self) ==
    IF self.num_fast_polls = 0 THEN Returned(0)
    ELSE FromNanosDiv(self.total_time_fast_poll_ns, self.num_fast_polls)

\* TaskMetrics::mean_slow_polls
mean_slow_polls(self) ==
    IF self.num_slow_polls = 0 THEN Returned(0)
    ELSE FromNanosDiv(self.total_time_slow_poll_ns, self.num_slow_polls)

\* TaskMetrics::num_polls: a plain `+` on u64, which panics on overflow in a
\* build with overflow checks (the default of debug builds) and wraps in a
\* build without them
num_polls(self, overflow_checks) ==
    IF self.num_fast_polls + self.num_slow_polls <= U64Max
    THEN Returned(self.num_fast_polls + self.num_slow_polls)
    ELSE IF overflow_checks THEN Panicked
    ELSE Returned((self.num_fast_polls + self.num_slow_polls) % U64Modulus)

\* ------------------------------------------------------------- state
VARIABLES
    now,                \* the clock, ns
    slow_poll_threshold,\* RawMetrics.slow_poll_threshold
    metrics,            \* RawMetrics: the eight AtomicU64 counters
    pc,                 \* per task: "new", "idle", "task", "done", "dropped"
    did_poll_once,      \* Instrumented.did_poll_once
    instrumented_at,    \* State.instrumented_at
    woke_at,            \* State.woke_at
    waker,              \* State.waker (AtomicWaker slot)
    handed,             \* a substituted notifier of the task exists
    poll_now,           \* Instrumented::poll, local `now`
    previous,           \* intervals(): `previous`, <<>> is None
    item,               \* intervals(): last value returned by next()
    total,              \* history: unwrapped sum of all amounts added
    g,                  \* history: per-task event bookkeeping
    h,                  \* history: reads performed by the interval iterator
    metrics_b,          \* RawMetrics of a second TaskMonitor ("B")
    monitor,            \* per task: the monitor whose registry its State holds
    snapshot,           \* a TaskMetrics value held by a caller, <<>> is none
    derived,            \* result of the latest derived-metric call on it
    local,              \* per task: locals of poll between its atomic operations
    loading,            \* RawMetrics::metrics in progress: the loads done so far
    steps,              \* history: what the steps decided to add, unwrapped
    reader              \* a second reader of the monitor: a second iterator
                        \* returned by intervals() and calls of cumulative()

vars == <<now, slow_poll_threshold, metrics, pc, did_poll_once,
          instrumented_at, woke_at, waker, handed, poll_now, previous, item,
          total, g, h, metrics_b, monitor, snapshot, derived,
          local, loading, steps, reader>>

\* amounts by which a step changed the registry (each is at most U64Max)
Added(m1, m2) == [f \in Fields |-> WrappingSub(m2[f], m1[f])]

Plus(c, d) == [f \in Fields |-> c[f] + d[f]]

RECURSIVE SumF(_, _)
SumF(f, n) == IF n = 0 THEN 0 ELSE f[n] + SumF(f, n - 1)
\* history of one task:
\*   polls      execution steps started
\*   notifies   calls of the substituted notifier
\*   stores     notifications whose compare_exchange changed woke_at
\*   samples    scheduling-delay samples its steps added to the registry
\*   first_ok   None before the first step, then whether the time from
\*              instrumentation to the first step fitted in u64
\*   pend_since clock at the first notification since the last claim
\*   pend_k     notifications since the last claim
\*   once       so far exactly one notification between consecutive steps
\*   short      so far every step was shorter than the slow-poll threshold
\*   relays     invocations of a scheduler-supplied waker by AtomicWaker::wake
\*   relayed    a scheduler-supplied waker was invoked since the latest step
\*              of the task began
\*   unseen     the substituted notifier was invoked since the wrapped
\*              future was last polled
\*   late       calls of the substituted notifier after completion
\*   waking     calls of the substituted notifier that have run measure_wake
\*              and not yet AtomicWaker::wake
\*   counted    completed steps whose duration fitted in u64
\*   inner      steps of the wrapped future started
\*   task_ret   the results the wrapped future returned, in order
\*   ret        the results Instrumented::poll returned, in order
\*   via        the monitor handle it was instrumented through (0: the only one)
\*   invoked    the scheduler-supplied wakers AtomicWaker::wake invoked
\*   raced      it began a step while another task was between the atomic
\*              operations of a step
NewG ==
    [polls |-> 0, notifies |-> 0, stores |-> 0, samples |-> 0,
     first_ok |-> None, pend_since |-> None, pend_k |-> 0, once |-> TRUE,
     short |-> TRUE, relays |-> 0, relayed |-> FALSE, unseen |-> FALSE,
     late |-> 0, waking |-> 0, counted |-> 0,
     inner |-> 0, task_ret |-> <<>>, ret |-> <<>>, via |-> 0,
     invoked |-> {}, raced |-> FALSE]

\* locals of a poll in progress:
\*   woke    the value measure_poll swapped out of woke_at
\*   nanos   scheduled_nanos / polled_nanos, kept for the second fetch_add
\*   slow    the branch measure_poll_time took
\*   ret     what the wrapped future returned
NewLocal == [woke |-> 0, nanos |-> 0, slow |-> FALSE, ret |-> "Pending"]

\* the loads of RawMetrics::metrics, in the order of its struct expression
LoadOrder ==
    <<"tasks_count", "schedule_count", "fast_polls_count", "slow_polls_count",
      "time_to_first_poll_ns_total", "scheduled_ns_total",
      "fast_poll_ns_total", "slow_poll_ns_total">>

\* a call of RawMetrics::metrics that has done none of its loads:
\*   n         loads done
\*   m         the values loaded (0 where not loaded yet)
\*   m_total   history: the unwrapped counter at each load
NewLoading == [n |-> 0, m |-> NewRawMetrics, m_total |-> NewRawMetrics]

\* field-wise sum of two TaskMetrics values, as u64 (wrapping_add)
SumItems(a, b) == [f \in DOMAIN a |-> WrappingAdd(a[f], b[f])]

Polls == SumF([u \in Tasks |-> g[u].polls], NumTasks)
Notifies == SumF([u \in Tasks |-> g[u].notifies], NumTasks)

\* history of the interval iterator:
\*   advances    calls of next()
\*   read        the registry as loaded by the latest call
\*   older       the registry as loaded by the call before it
\*   read_total, older_total   the unwrapped totals at those two loads
\*   sum         field-wise wrapping sum of the items it has yielded
\* the second reader:
\*   previous   intervals(): `previous` of the second iterator, <<>> is None
\*   advances   history: calls of its next()
\*   calls      history: calls of cumulative()
\* (the value its latest call returned is held in snapshot)
NewReader == [previous |-> <<>>, advances |-> 0, calls |-> 0]

NewH == [advances |-> 0, read |-> <<>>, read_total |-> <<>>,
         older |-> <<>>, older_total |-> <<>>,
         sum |-> Metrics(NewRawMetrics)]

Init ==
    /\ now = 0
    /\ slow_poll_threshold \in Thresholds
    /\ metrics = NewRawMetrics
    /\ pc = [t \in Tasks |-> "new"]
    /\ did_poll_once = [t \in Tasks |-> FALSE]
    /\ instrumented_at = [t \in Tasks |-> 0]
    /\ woke_at = [t \in Tasks |-> 0]
    /\ waker = [t \in Tasks |-> NoWaker]
    /\ handed = [t \in Tasks |-> FALSE]
    /\ poll_now = [t \in Tasks |-> 0]
    /\ previous = <<>>
    /\ item = <<>>
    /\ total = NewRawMetrics
    /\ g = [t \in Tasks |-> NewG]
    /\ h = NewH
    /\ metrics_b = NewRawMetrics
    /\ monitor = [t \in Tasks |-> "A"]
    /\ snapshot = <<>>
    /\ derived = <<>>
    /\ local = [t \in Tasks |-> NewLocal]
    /\ loading = NewLoading
    /\ steps = NewRawMetrics
    /\ reader = NewReader

\* ------------------------------------------------------------ actions
\* the clock advances; its origin is the first instrumentation
Tick ==
    /\ pc[1] # "new"
    /\ now < MaxTime
    /\ now' = now + 1
    /\ UNCHANGED <<reader, slow_poll_threshold, metrics, pc, did_poll_once,
                   instrumented_at, woke_at, waker, handed, poll_now,
                   previous, item, total, g, h,
                   metrics_b, monitor, snapshot, derived,
                   local, loading, steps>>

\* mutant of Instrument: the task is counted when it is instrumented
Instrument_CountsTask(t) ==
    /\ pc[t] = "new"
    /\ \A u \in Tasks : u < t => pc[u] # "new"
    /\ pc' = [pc EXCEPT ![t] = "idle"]
    /\ did_poll_once' = [did_poll_once EXCEPT ![t] = FALSE]
    /\ instrumented_at' = [instrumented_at EXCEPT ![t] = now]
    /\ woke_at' = [woke_at EXCEPT ![t] = 0]
    /\ waker' = [waker EXCEPT ![t] = NoWaker]
    /\ metrics' = [metrics EXCEPT !.tasks_count = (@ + 1) % U64Modulus]
    /\ UNCHANGED <<reader, now, slow_poll_threshold, handed, poll_now,
                   previous, item, total, g, h,
                   metrics_b, monitor, snapshot, derived,
                   local, loading, steps>>

\* TaskMonitor::instrument; tasks are numbered in the order of their
\* instrumentation
Instrument(t) ==
    /\ pc[t] = "new"
    /\ \A u \in Tasks : u < t => pc[u] # "new"
    /\ pc' = [pc EXCEPT ![t] = "idle"]
    /\ did_poll_once' = [did_poll_once EXCEPT ![t] = FALSE]
    /\ instrumented_at' = [instrumented_at EXCEPT ![t] = now]
    /\ woke_at' = [woke_at EXCEPT ![t] = 0]
    /\ waker' = [waker EXCEPT ![t] = NoWaker]
    /\ UNCHANGED <<reader, now, slow_poll_threshold, metrics, handed, poll_now,
                   previous, item, total, g, h,
                   metrics_b, monitor, snapshot, derived,
                   local, loading, steps>>

\* mutant of FirstPoll: the sample is taken on every step, not only the first
FirstPoll_EveryStep(m, first, elapsed) ==
    IF TryIntoU64Ok(elapsed)
    THEN FetchAdd(FetchAdd(m, "time_to_first_poll_ns_total", elapsed),
                  "tasks_count", 1)
    ELSE m

\* mutant of FirstPoll: the elapsed time is truncated to u64 (`as u64`)
\* instead of being dropped when it does not fit
FirstPoll_Truncating(m, first, elapsed) ==
    IF first
    THEN FetchAdd(FetchAdd(m, "time_to_first_poll_ns_total",
                           elapsed % U64Modulus),
                  "tasks_count", 1)
    ELSE m

\* Instrumented::poll, the `if !*this.did_poll_once` block: the registry
\* after it, given the time elapsed since instrumentation
FirstPoll(m, first, elapsed) ==
    IF first /\ TryIntoU64Ok(elapsed)
    THEN FetchAdd(FetchAdd(m, "time_to_first_poll_ns_total", elapsed),
                  "tasks_count", 1)
    ELSE m

\* mutant of ScheduledNanos: woke_at = 0 is not treated as "not woken"
ScheduledNanos_NoZeroCheck(at, woke, clock) ==
    IF clock - (at + woke) <= U64Max THEN clock - (at + woke) ELSE -1

\* State::measure_poll: the delay to record for the swapped-out woke_at,
\* None when nothing is recorded
ScheduledNanos(at, woke, clock) ==
    IF woke = 0 THEN None
    ELSE IF TryIntoU64Ok(clock - (at + woke)) THEN clock - (at + woke)
    ELSE None

\* mutant of MeasurePoll: the step is counted (as fast) when it begins
MeasurePoll_CountsStep(m, at, woke, clock) ==
    FetchAdd(IF ScheduledNanos(at, woke, clock) = None THEN m
             ELSE FetchAdd(FetchAdd(m, "scheduled_ns_total",
                                    ScheduledNanos(at, woke, clock)),
                           "schedule_count", 1),
             "fast_polls_count", 1)

\* State::measure_poll: the registry after it
MeasurePoll(m, at, woke, clock) ==
    IF ScheduledNanos(at, woke, clock) = None THEN m
    ELSE FetchAdd(FetchAdd(m, "scheduled_ns_total",
                           ScheduledNanos(at, woke, clock)),
                  "schedule_count", 1)

\* mutant of WokeAtAfterSwap: woke_at is loaded, not swapped to 0
WokeAtAfterSwap_Load(cur) == cur

\* State::measure_poll, `self.woke_at.swap(0, SeqCst)`: the value left in
\* woke_at
WokeAtAfterSwap(cur) == 0

\* Instrumented::poll from its entry until the wrapped future is polled:
\* first-poll sample, measure_poll (swap woke_at to 0), register the
\* caller's waker w, hand out the instrumented waker, take `now`
PollEnter(t, w) ==
    /\ pc[t] = "idle"
    /\ Polls < MaxPolls
    /\ LET elapsed == now - instrumented_at[t]
           m1 == FirstPoll(metrics, ~did_poll_once[t], elapsed)
           m2 == MeasurePoll(m1, instrumented_at[t], woke_at[t], now)
       IN /\ metrics' = m2
          /\ total' = Plus(Plus(total, Added(metrics, m1)), Added(m1, m2))
          /\ g' = [g EXCEPT ![t].polls = @ + 1,
                            ![t].first_ok =
                                IF did_poll_once[t] THEN @
                                ELSE IF elapsed <= U64Max THEN 1 ELSE 0,
                            ![t].samples =
                                @ + Added(m1, m2).schedule_count,
                            ![t].once = @ /\ (g[t].pend_k =
                                IF did_poll_once[t] THEN 1 ELSE 0),
                            ![t].pend_since = None,
                            ![t].pend_k = 0,
                            ![t].relayed = FALSE,
                            ![t].unseen = FALSE,
                            ![t].inner = @ + 1]
    /\ did_poll_once' = [did_poll_once EXCEPT ![t] = TRUE]
    /\ woke_at' = [woke_at EXCEPT ![t] = WokeAtAfterSwap(@)]
    /\ waker' = [waker EXCEPT ![t] = w]
    /\ handed' = [handed EXCEPT ![t] = TRUE]
    /\ poll_now' = [poll_now EXCEPT ![t] = now]
    /\ pc' = [pc EXCEPT ![t] = "task"]
    /\ UNCHANGED <<reader, now, slow_poll_threshold, instrumented_at, previous,
                   item, h,
                   metrics_b, monitor, snapshot, derived,
                   local, loading, steps>>

\* mutant of MeasureWake: the offset is stored (store where the code has
\* compare_exchange), so that a later notification overwrites an earlier one
MeasureWake_Store(cur, at, clock) ==
    IF ~TryIntoU64Ok(clock - at) THEN cur ELSE clock - at

\* State::measure_wake: woke_at after the compare_exchange(0, elapsed)
MeasureWake(cur, at, clock) ==
    IF ~TryIntoU64Ok(clock - at) THEN cur
    ELSE IF cur = 0 THEN clock - at
    ELSE cur

\* mutant of Wake: the notifier returns before the relay when the elapsed
\* time does not fit in u64
Wake_ReturnsBeforeRelay(t) ==
    /\ handed[t]
    /\ Notifies < MaxNotifies
    /\ woke_at' = [woke_at EXCEPT ![t] = MeasureWake(@, instrumented_at[t], now)]
    /\ LET relay == TryIntoU64Ok(now - instrumented_at[t])
                     /\ waker[t] # NoWaker
       IN /\ waker' = [waker EXCEPT ![t] =
                          IF TryIntoU64Ok(now - instrumented_at[t])
                          THEN NoWaker ELSE @]
          /\ g' = [g EXCEPT ![t].notifies = @ + 1,
                            ![t].stores = IF woke_at'[t] # woke_at[t] THEN @ + 1 ELSE @,
                            ![t].pend_since = IF @ = None THEN now ELSE @,
                            ![t].pend_k = @ + 1,
                            ![t].relays = IF relay THEN @ + 1 ELSE @,
                            ![t].relayed = @ \/ relay,
                            ![t].unseen = TRUE,
                            ![t].late = IF pc[t] = "done" THEN @ + 1 ELSE @]
    /\ UNCHANGED <<reader, now, slow_poll_threshold, metrics, pc, did_poll_once,
                   instrumented_at, handed, poll_now, previous, item,
                   total, h,
                   metrics_b, monitor, snapshot, derived,
                   local, loading, steps>>

\* mutant of Wake: the notifier itself records a scheduling sample
Wake_CountsSchedule(t) ==
    /\ handed[t]
    /\ Notifies < MaxNotifies
    /\ woke_at' = [woke_at EXCEPT ![t] = MeasureWake(@, instrumented_at[t], now)]
    /\ waker' = [waker EXCEPT ![t] = NoWaker]
    /\ metrics' = FetchAdd(metrics, "schedule_count", 1)
    /\ total' = [total EXCEPT !.schedule_count = @ + 1]
    /\ g' = [g EXCEPT ![t].notifies = @ + 1,
                      ![t].stores = IF woke_at'[t] # woke_at[t] THEN @ + 1 ELSE @,
                      ![t].pend_since = IF @ = None THEN now ELSE @,
                      ![t].pend_k = @ + 1,
                      ![t].relays = IF waker[t] # NoWaker THEN @ + 1 ELSE @,
                      ![t].relayed = @ \/ waker[t] # NoWaker,
                      ![t].unseen = TRUE,
                      ![t].late = IF pc[t] = "done" THEN @ + 1 ELSE @]
    /\ UNCHANGED <<reader, now, slow_poll_threshold, pc, did_poll_once,
                   instrumented_at, handed, poll_now, previous, item, h,
                   metrics_b, monitor, snapshot, derived,
                   local, loading, steps>>

\* mutant of Wake: woke_at and the AtomicWaker are kept with the registry,
\* one of each for all the tasks of the monitor
Wake_SharedState(t) ==
    /\ handed[t]
    /\ Notifies < MaxNotifies
    /\ woke_at' = [u \in Tasks |->
                        MeasureWake(woke_at[u], instrumented_at[u], now)]
    /\ waker' = [u \in Tasks |-> NoWaker]
    /\ g' = [g EXCEPT ![t].notifies = @ + 1,
                      ![t].stores = IF woke_at'[t] # woke_at[t] THEN @ + 1 ELSE @,
                      ![t].pend_since = IF @ = None THEN now ELSE @,
                      ![t].pend_k = @ + 1,
                      ![t].relays = IF waker[t] # NoWaker THEN @ + 1 ELSE @,
                      ![t].relayed = @ \/ waker[t] # NoWaker,
                      ![t].unseen = TRUE,
                      ![t].late = IF pc[t] = "done" THEN @ + 1 ELSE @,
                      ![t].invoked = @ \cup ({waker[t]} \ {NoWaker})]
    /\ UNCHANGED <<reader, now, slow_poll_threshold, metrics, pc, did_poll_once,
                   instrumented_at, handed, poll_now, previous, item,
                   total, h,
                   metrics_b, monitor, snapshot, derived,
                   local, loading, steps>>

\* ArcWake::wake / wake_by_ref of the substituted notifier: measure_wake,
\* then AtomicWaker::wake takes the registered waker and wakes it
Wake(t) ==
    /\ handed[t]
    /\ Notifies < MaxNotifies
    /\ woke_at' = [woke_at EXCEPT ![t] = MeasureWake(@, instrumented_at[t], now)]
    /\ waker' = [waker EXCEPT ![t] = NoWaker]
    /\ g' = [g EXCEPT ![t].notifies = @ + 1,
                      ![t].stores = IF woke_at'[t] # woke_at[t] THEN @ + 1 ELSE @,
                      ![t].pend_since = IF @ = None THEN now ELSE @,
                      ![t].pend_k = @ + 1,
                      ![t].relays = IF waker[t] # NoWaker THEN @ + 1 ELSE @,
                      ![t].relayed = @ \/ waker[t] # NoWaker,
                      ![t].unseen = TRUE,
                      ![t].late = IF pc[t] = "done" THEN @ + 1 ELSE @,
                      ![t].invoked = @ \cup ({waker[t]} \ {NoWaker})]
    /\ UNCHANGED <<reader, now, slow_poll_threshold, metrics, pc, did_poll_once,
                   instrumented_at, handed, poll_now, previous, item,
                   total, h,
                   metrics_b, monitor, snapshot, derived,
                   local, loading, steps>>

\* mutant of PollRet: the wrapper reports the step as unfinished whatever
\* the wrapped future returned
PollRet_Pending(ret) == "Pending"

\* Instrumented::poll returns `ret`, the value Future::poll of the wrapped
\* future returned, after measure_poll_time
PollRet(ret) == ret

\* mutant of MeasurePollTime: a step whose duration does not fit in u64 is
\* counted as slow, without a duration
MeasurePollTime_CountsAnyway(m, duration, threshold) ==
    IF ~TryIntoU64Ok(duration) THEN FetchAdd(m, "slow_polls_count", 1)
    ELSE IF duration >= threshold
    THEN FetchAdd(FetchAdd(m, "slow_polls_count", 1),
                  "slow_poll_ns_total", duration)
    ELSE FetchAdd(FetchAdd(m, "fast_polls_count", 1),
                  "fast_poll_ns_total", duration)

\* mutant of MeasurePollTime: the comparison with the threshold is inverted
MeasurePollTime_Inverted(m, duration, threshold) ==
    IF duration > U64Max THEN m
    ELSE IF duration < threshold
    THEN [m EXCEPT !.slow_polls_count = (@ + 1) % U64Modulus,
                   !.slow_poll_ns_total = (@ + duration) % U64Modulus]
    ELSE [m EXCEPT !.fast_polls_count = (@ + 1) % U64Modulus,
                   !.fast_poll_ns_total = (@ + duration) % U64Modulus]

\* mutant of MeasurePollTime: `>` where the code has `>=`
MeasurePollTime_Strict(m, duration, threshold) ==
    IF duration > U64Max THEN m
    ELSE IF duration > threshold
    THEN [m EXCEPT !.slow_polls_count = (@ + 1) % U64Modulus,
                   !.slow_poll_ns_total = (@ + duration) % U64Modulus]
    ELSE [m EXCEPT !.fast_polls_count = (@ + 1) % U64Modulus,
                   !.fast_poll_ns_total = (@ + duration) % U64Modulus]

\* State::measure_poll_time: the registry after it
MeasurePollTime(m, duration, threshold) ==
    IF ~TryIntoU64Ok(duration) THEN m
    ELSE IF duration >= threshold
    THEN FetchAdd(FetchAdd(m, "slow_polls_count", 1),
                  "slow_poll_ns_total", duration)
    ELSE FetchAdd(FetchAdd(m, "fast_polls_count", 1),
                  "fast_poll_ns_total", duration)

\* the wrapped future's poll returns r; measure_poll_time(now.elapsed());
\* Instrumented::poll returns r
PollReturn(t, r) ==
    /\ pc[t] = "task"
    /\ LET m2 == MeasurePollTime(metrics, now - poll_now[t], slow_poll_threshold)
       IN /\ metrics' = m2
          /\ total' = Plus(total, Added(metrics, m2))
    /\ pc' = [pc EXCEPT ![t] = IF PollRet(r) = "Ready" THEN "done"
                                                        ELSE "idle"]
    /\ poll_now' = [poll_now EXCEPT ![t] = 0]
    /\ g' = [g EXCEPT ![t].short = @ /\ now - poll_now[t] < slow_poll_threshold,
                      ![t].counted = IF now - poll_now[t] <= U64Max
                                     THEN @ + 1 ELSE @,
                      ![t].task_ret = Append(@, r),
                      ![t].ret = Append(@, PollRet(r))]
    /\ UNCHANGED <<reader, now, slow_poll_threshold, did_poll_once, instrumented_at,
                   woke_at, waker, handed, previous, item, h,
                   metrics_b, monitor, snapshot, derived,
                   local, loading, steps>>

\* mutant of DropTask: dropping claims the stored timestamp and records it,
\* as a Drop impl calling measure_poll would
DropTask_ClaimsSample(t) ==
    /\ pc[t] = "idle"
    /\ pc' = [pc EXCEPT ![t] = "dropped"]
    /\ metrics' = MeasurePoll(metrics, instrumented_at[t], woke_at[t], now)
    /\ woke_at' = [woke_at EXCEPT ![t] = 0]
    /\ UNCHANGED <<reader, now, slow_poll_threshold, did_poll_once,
                   instrumented_at, waker, handed, poll_now,
                   previous, item, total, g, h,
                   metrics_b, monitor, snapshot, derived,
                   local, loading, steps>>

\* the Instrumented value is dropped between steps (it has no Drop impl)
DropTask(t) ==
    /\ pc[t] = "idle"
    /\ pc' = [pc EXCEPT ![t] = "dropped"]
    /\ UNCHANGED <<reader, now, slow_poll_threshold, metrics, did_poll_once,
                   instrumented_at, woke_at, waker, handed, poll_now,
                   previous, item, total, g, h,
                   metrics_b, monitor, snapshot, derived,
                   local, loading, steps>>

\* mutant of IntervalsNext: the read takes the counters (swap(0) where the
\* code loads), so that the registry restarts from zero
IntervalsNext_Takes ==
    /\ h.advances + reader.advances + reader.calls < MaxAdvances
    /\ LET latest == Metrics(metrics)
           next == IF previous # <<>> THEN Sub(latest, previous[1]) ELSE latest
       IN /\ previous' = <<latest>>
          /\ item' = <<next>>
    /\ metrics' = NewRawMetrics
    /\ h' = [advances |-> h.advances + 1,
             read |-> <<Metrics(metrics)>>,
             read_total |-> <<Metrics(total)>>,
             older |-> h.read,
             older_total |-> h.read_total,
             sum |-> SumItems(h.sum, item'[1])]
    /\ UNCHANGED <<reader, now, slow_poll_threshold, pc, did_poll_once,
                   instrumented_at, woke_at, waker, handed, poll_now,
                   total, g,
                   metrics_b, monitor, snapshot, derived,
                   local, loading, steps>>

\* mutant of IntervalsNext: `previous = Some(latest)` is missing
IntervalsNext_NoBaseline ==
    /\ h.advances + reader.advances + reader.calls < MaxAdvances
    /\ LET latest == Metrics(metrics)
           next == IF previous # <<>> THEN Sub(latest, previous[1]) ELSE latest
       IN /\ previous' = previous
          /\ item' = <<next>>
    /\ h' = [advances |-> h.advances + 1,
             read |-> <<Metrics(metrics)>>,
             read_total |-> <<Metrics(total)>>,
             older |-> h.read,
             older_total |-> h.read_total,
             sum |-> SumItems(h.sum, item'[1])]
    /\ UNCHANGED <<reader, now, slow_poll_threshold, metrics, pc, did_poll_once,
                   instrumented_at, woke_at, waker, handed, poll_now,
                   total, g,
                   metrics_b, monitor, snapshot, derived,
                   local, loading, steps>>

\* one `next()` of the iterator returned by TaskMonitor::intervals
IntervalsNext ==
    /\ h.advances + reader.advances + reader.calls < MaxAdvances
    /\ LET latest == Metrics(metrics)
           next == IF previous # <<>> THEN Sub(latest, previous[1]) ELSE latest
       IN /\ previous' = <<latest>>
          /\ item' = <<next>>
    /\ h' = [advances |-> h.advances + 1,
             read |-> <<Metrics(metrics)>>,
             read_total |-> <<Metrics(total)>>,
             older |-> h.read,
             older_total |-> h.read_total,
             sum |-> SumItems(h.sum, item'[1])]
    /\ UNCHANGED <<reader, now, slow_poll_threshold, metrics, pc, did_poll_once,
                   instrumented_at, woke_at, waker, handed, poll_now,
                   total, g,
                   metrics_b, monitor, snapshot, derived,
                   local, loading, steps>>

\* ---- Instrumented::poll and the notifier at the granularity of their
\* ---- atomic operations
\* Instrumented::poll, first part: the first-poll block and measure_poll
\* (the claim of the stored timestamp)
PollClaim(t) ==
    /\ pc[t] = "idle"
    /\ Polls < MaxPolls
    /\ LET elapsed == now - instrumented_at[t]
           m1 == FirstPoll(metrics, ~did_poll_once[t], elapsed)
           m2 == MeasurePoll(m1, instrumented_at[t], woke_at[t], now)
       IN /\ metrics' = m2
          /\ total' = Plus(Plus(total, Added(metrics, m1)), Added(m1, m2))
          /\ g' = [g EXCEPT ![t].polls = @ + 1,
                            ![t].first_ok =
                                IF did_poll_once[t] THEN @
                                ELSE IF elapsed <= U64Max THEN 1 ELSE 0,
                            ![t].samples =
                                @ + Added(m1, m2).schedule_count,
                            ![t].once = @ /\ (g[t].pend_k =
                                IF did_poll_once[t] THEN 1 ELSE 0),
                            ![t].pend_since = None,
                            ![t].pend_k = 0,
                            ![t].relayed = FALSE]
    /\ did_poll_once' = [did_poll_once EXCEPT ![t] = TRUE]
    /\ woke_at' = [woke_at EXCEPT ![t] = WokeAtAfterSwap(@)]
    /\ pc' = [pc EXCEPT ![t] = "claimed"]
    /\ UNCHANGED <<reader, now, slow_poll_threshold, instrumented_at, waker, handed,
                   poll_now, previous, item, h,
                   metrics_b, monitor, snapshot, derived,
                   local, loading, steps>>

\* mutant of PollRegister: the waker is registered by the first step only
PollRegister_FirstStepOnly(t, w) ==
    /\ pc[t] = "claimed"
    /\ waker' = [waker EXCEPT ![t] = IF handed[t] THEN @ ELSE w]
    /\ pc' = [pc EXCEPT ![t] = "registered"]
    /\ UNCHANGED <<reader, now, slow_poll_threshold, metrics, did_poll_once,
                   instrumented_at, woke_at, handed, poll_now, previous, item,
                   total, g, h,
                   metrics_b, monitor, snapshot, derived,
                   local, loading, steps>>

\* Instrumented::poll, `this.state.waker.register(cx.waker())`: the slot
\* now holds the waker of this step's caller
PollRegister(t, w) ==
    /\ pc[t] = "claimed"
    /\ waker' = [waker EXCEPT ![t] = w]
    /\ pc' = [pc EXCEPT ![t] = "registered"]
    /\ UNCHANGED <<reader, now, slow_poll_threshold, metrics, did_poll_once,
                   instrumented_at, woke_at, handed, poll_now, previous, item,
                   total, g, h,
                   metrics_b, monitor, snapshot, derived,
                   local, loading, steps>>

\* Instrumented::poll: the substituted notifier is made, `now` is taken and
\* the wrapped future's poll begins
PollInner(t) ==
    /\ pc[t] = "registered"
    /\ handed' = [handed EXCEPT ![t] = TRUE]
    /\ poll_now' = [poll_now EXCEPT ![t] = now]
    /\ pc' = [pc EXCEPT ![t] = "task"]
    /\ g' = [g EXCEPT ![t].unseen = FALSE,
                      ![t].inner = @ + 1]
    /\ UNCHANGED <<reader, now, slow_poll_threshold, metrics, did_poll_once,
                   instrumented_at, woke_at, waker, previous, item, total, h,
                   metrics_b, monitor, snapshot, derived,
                   local, loading, steps>>

\* ArcWake::wake / wake_by_ref, first part: measure_wake
WakeMeasure(t) ==
    /\ handed[t]
    /\ Notifies < MaxNotifies
    /\ woke_at' = [woke_at EXCEPT ![t] = MeasureWake(@, instrumented_at[t], now)]
    /\ g' = [g EXCEPT ![t].notifies = @ + 1,
                      ![t].stores = IF woke_at'[t] # woke_at[t] THEN @ + 1 ELSE @,
                      ![t].pend_since = IF @ = None THEN now ELSE @,
                      ![t].pend_k = @ + 1,
                      ![t].unseen = TRUE,
                      ![t].late = IF pc[t] = "done" THEN @ + 1 ELSE @,
                      ![t].waking = @ + 1]
    /\ UNCHANGED <<reader, now, slow_poll_threshold, metrics, pc, did_poll_once,
                   instrumented_at, waker, handed, poll_now, previous, item,
                   total, h,
                   metrics_b, monitor, snapshot, derived,
                   local, loading, steps>>

\* ArcWake::wake / wake_by_ref, second part: AtomicWaker::wake takes the
\* registered waker, if there is one, and invokes it
WakeRelay(t) ==
    /\ g[t].waking > 0
    /\ waker' = [waker EXCEPT ![t] = NoWaker]
    /\ g' = [g EXCEPT ![t].relays = IF waker[t] # NoWaker THEN @ + 1 ELSE @,
                      ![t].relayed = @ \/ waker[t] # NoWaker,
                      ![t].waking = @ - 1,
                      ![t].invoked = @ \cup ({waker[t]} \ {NoWaker})]
    /\ UNCHANGED <<reader, now, slow_poll_threshold, metrics, pc, did_poll_once,
                   instrumented_at, woke_at, handed, poll_now, previous, item,
                   total, h,
                   metrics_b, monitor, snapshot, derived,
                   local, loading, steps>>

\* ---- nested wraps: monitor_a.instrument(monitor_b.instrument(fut)); task 1
\* ---- is the inner wrap (instrumented first), task 2 the outer wrap
\* mutant of MonitorOf: every wrap reports to the registry of the outer one
MonitorOf_Outermost(t) == monitor[2]

\* TaskMonitor::instrument, `metrics: self.metrics.clone()`: the monitor
\* whose registry the State of wrap t holds
MonitorOf(t) == monitor[t]

\* `this.state.metrics` of wrap t
Registry(t) == IF MonitorOf(t) = "A" THEN metrics ELSE metrics_b

\* the registry of wrap t becomes m; the other monitor's is untouched
StoreRegistry(t, m) ==
    IF MonitorOf(t) = "A"
    THEN /\ metrics' = m
         /\ metrics_b' = metrics_b
         /\ total' = Plus(total, Added(metrics, m))
    ELSE /\ metrics_b' = m
         /\ metrics' = metrics
         /\ total' = total

\* the instrumented waker of wrap t (waker_ref(&this.state)), as a waker
\* value registered by the wrap inside it
WakerRef(t) == NumWakers + t

\* Instrumented::poll of wrap t, from its entry until it polls what it wraps;
\* w is the waker of its caller's context
LayerEnter(t, w) ==
    /\ pc[t] = "idle"
    /\ LET elapsed == now - instrumented_at[t]
           m1 == FirstPoll(Registry(t), ~did_poll_once[t], elapsed)
           m2 == MeasurePoll(m1, instrumented_at[t], woke_at[t], now)
       IN /\ StoreRegistry(t, m2)
          /\ g' = [g EXCEPT ![t].polls = @ + 1,
                            ![t].first_ok =
                                IF did_poll_once[t] THEN @
                                ELSE IF elapsed <= U64Max THEN 1 ELSE 0,
                            ![t].samples =
                                @ + Added(m1, m2).schedule_count,
                            ![t].pend_since = None,
                            ![t].pend_k = 0,
                            ![t].relayed = FALSE,
                            ![t].unseen = FALSE,
                            ![t].inner = @ + 1]
    /\ did_poll_once' = [did_poll_once EXCEPT ![t] = TRUE]
    /\ woke_at' = [woke_at EXCEPT ![t] = WokeAtAfterSwap(@)]
    /\ waker' = [waker EXCEPT ![t] = w]
    /\ handed' = [handed EXCEPT ![t] = TRUE]
    /\ poll_now' = [poll_now EXCEPT ![t] = now]
    /\ pc' = [pc EXCEPT ![t] = "task"]
    /\ UNCHANGED <<reader, now, slow_poll_threshold, instrumented_at, previous,
                   item, h, monitor, snapshot, derived,
                   local, loading, steps>>

\* what wrap t wraps returned r: measure_poll_time, and wrap t returns r
LayerReturn(t, r) ==
    /\ pc[t] = "task"
    /\ StoreRegistry(t, MeasurePollTime(Registry(t), now - poll_now[t],
                                        slow_poll_threshold))
    /\ pc' = [pc EXCEPT ![t] = IF PollRet(r) = "Ready" THEN "done"
                                                        ELSE "idle"]
    /\ poll_now' = [poll_now EXCEPT ![t] = 0]
    /\ g' = [g EXCEPT ![t].short = @ /\ now - poll_now[t] < slow_poll_threshold,
                      ![t].counted = IF now - poll_now[t] <= U64Max
                                     THEN @ + 1 ELSE @,
                      ![t].task_ret = Append(@, r),
                      ![t].ret = Append(@, PollRet(r))]
    /\ UNCHANGED <<reader, now, slow_poll_threshold, did_poll_once, instrumented_at,
                   woke_at, waker, handed, previous, item, h,
                   monitor, snapshot, derived,
                   local, loading, steps>>

\* the clock advances between the steps of the nested task and while the
\* wrapped future runs, not in the code of the two wraps around it
NestedTick ==
    /\ pc[2] # "task" \/ pc[1] = "task"
    /\ Tick

\* the scheduler steps the nested task: poll of the outer wrap begins
OuterEnter(w) ==
    /\ pc[1] = "idle"
    /\ g[2].polls < MaxPolls
    /\ LayerEnter(2, w)

\* the outer wrap polls the inner wrap, with its instrumented waker
InnerEnter ==
    /\ pc[2] = "task"
    /\ g[1].polls < g[2].polls
    /\ LayerEnter(1, WakerRef(2))

\* the wrapped future returned r to the inner wrap
InnerReturn(r) == LayerReturn(1, r)

\* the inner wrap returned to the outer wrap, which returns the same
OuterReturn ==
    /\ pc[1] \in {"idle", "done"}
    /\ g[1].polls = g[2].polls
    /\ LayerReturn(2, IF pc[1] = "done" THEN "Ready" ELSE "Pending")

\* the wrapped future's notifier (the inner wrap's instrumented waker) is
\* invoked: measure_wake of the inner State, whose AtomicWaker::wake invokes
\* the outer wrap's instrumented waker if it is registered: measure_wake of
\* the outer State, whose AtomicWaker::wake invokes the scheduler's waker
NestedWake ==
    /\ handed[1]
    /\ g[1].notifies < MaxNotifies
    /\ LET through == waker[1] = WakerRef(2)
           out == through /\ waker[2] # NoWaker
       IN /\ woke_at' = [woke_at EXCEPT
                 ![1] = MeasureWake(@, instrumented_at[1], now),
                 ![2] = IF through
                        THEN MeasureWake(@, instrumented_at[2], now) ELSE @]
          /\ waker' = [waker EXCEPT ![1] = NoWaker,
                                    ![2] = IF through THEN NoWaker ELSE @]
          /\ g' = [g EXCEPT
                 ![1].notifies = @ + 1,
                 ![1].stores = IF woke_at'[1] # woke_at[1] THEN @ + 1 ELSE @,
                 ![1].pend_since = IF @ = None THEN now ELSE @,
                 ![1].pend_k = @ + 1,
                 ![1].unseen = TRUE,
                 ![1].late = IF pc[1] = "done" THEN @ + 1 ELSE @,
                 ![2].notifies = IF through THEN @ + 1 ELSE @,
                 ![2].stores = IF woke_at'[2] # woke_at[2] THEN @ + 1 ELSE @,
                 ![2].pend_since = IF through /\ @ = None THEN now ELSE @,
                 ![2].pend_k = IF through THEN @ + 1 ELSE @,
                 ![2].unseen = @ \/ through,
                 ![2].late = IF through /\ pc[2] = "done" THEN @ + 1 ELSE @,
                 ![2].relays = IF out THEN @ + 1 ELSE @,
                 ![2].relayed = @ \/ out]
    /\ UNCHANGED <<reader, now, slow_poll_threshold, metrics, pc, did_poll_once,
                   instrumented_at, handed, poll_now, previous, item,
                   total, h, metrics_b, monitor, snapshot, derived,
                   local, loading, steps>>

\* ---- derived metrics of a TaskMetrics value
\* a derived metric fn of the held snapshot is called; out is its outcome
Call(fn, out) ==
    /\ snapshot # <<>>
    /\ derived' = <<[fn |-> fn, out |-> out]>>
    /\ UNCHANGED <<reader, now, slow_poll_threshold, metrics, pc, did_poll_once,
                   instrumented_at, woke_at, waker, handed, poll_now,
                   previous, item, total, g, h, metrics_b, monitor, snapshot,
                   local, loading, steps>>

CallMeanTimeToFirstPoll ==
    Call("mean_time_to_first_poll", mean_time_to_first_poll(snapshot[1]))

CallMeanTimeScheduled ==
    Call("mean_time_scheduled", mean_time_scheduled(snapshot[1]))

CallMeanFastPolls == Call("mean_fast_polls", mean_fast_polls(snapshot[1]))

CallMeanSlowPolls == Call("mean_slow_polls", mean_slow_polls(snapshot[1]))

CallNumPolls(overflow_checks) ==
    Call("num_polls", num_polls(snapshot[1], overflow_checks))

\* ---- Instrumented::poll at the granularity of its fetch_adds, and
\* ---- RawMetrics::metrics at the granularity of its loads
\* another task than t is between the atomic operations of a step
OthersMidStep(t) ==
    \E u \in Tasks \ {t} :
        pc[u] \in {"first", "measure", "swapped", "sample", "timed"}

\* one fetch_add(amount, SeqCst) on counter f of the registry
AtomicAdd(f, amount) ==
    /\ metrics' = FetchAdd(metrics, f, amount)
    /\ total' = [total EXCEPT ![f] = @ + amount]

\* Instrumented::poll begins with the first-poll block: did_poll_once is
\* set and, if the elapsed time fits, time_to_first_poll_ns_total is added
FirstPollTime(t) ==
    /\ pc[t] = "idle"
    /\ ~did_poll_once[t]
    /\ Polls < MaxPolls
    /\ did_poll_once' = [did_poll_once EXCEPT ![t] = TRUE]
    /\ LET elapsed == now - instrumented_at[t]
       IN /\ IF TryIntoU64Ok(elapsed)
             THEN /\ AtomicAdd("time_to_first_poll_ns_total", elapsed)
                  /\ steps' = [steps EXCEPT
                                 !.time_to_first_poll_ns_total = @ + elapsed,
                                 !.tasks_count = @ + 1]
                  /\ pc' = [pc EXCEPT ![t] = "first"]
             ELSE /\ UNCHANGED <<reader, metrics, total, steps>>
                  /\ pc' = [pc EXCEPT ![t] = "measure"]
          /\ g' = [g EXCEPT ![t].polls = @ + 1,
                            ![t].first_ok = IF elapsed <= U64Max THEN 1 ELSE 0,
                            ![t].raced = @ \/ OthersMidStep(t)]
    /\ UNCHANGED <<reader, now, slow_poll_threshold, instrumented_at, woke_at, waker,
                   handed, poll_now, previous, item, h, metrics_b, monitor,
                   snapshot, derived, local, loading>>

\* the first-poll block: tasks_count.fetch_add(1)
FirstPollTasksCount(t) ==
    /\ pc[t] = "first"
    /\ AtomicAdd("tasks_count", 1)
    /\ pc' = [pc EXCEPT ![t] = "measure"]
    /\ UNCHANGED <<reader, now, slow_poll_threshold, did_poll_once, instrumented_at,
                   woke_at, waker, handed, poll_now, previous, item, g, h,
                   metrics_b, monitor, snapshot, derived, local, loading,
                   steps>>

\* measure_poll: woke_at.swap(0); on a later step this is the first
\* operation of Instrumented::poll
MeasurePollSwap(t) ==
    /\ \/ pc[t] = "measure"
       \/ pc[t] = "idle" /\ did_poll_once[t] /\ Polls < MaxPolls
    /\ local' = [local EXCEPT ![t].woke = woke_at[t]]
    /\ woke_at' = [woke_at EXCEPT ![t] = WokeAtAfterSwap(@)]
    /\ pc' = [pc EXCEPT ![t] = "swapped"]
    /\ g' = [g EXCEPT ![t].polls = IF pc[t] = "idle" THEN @ + 1 ELSE @,
                      ![t].once = @ /\ (g[t].pend_k =
                          IF pc[t] = "idle" THEN 1 ELSE 0),
                      ![t].pend_since = None,
                      ![t].pend_k = 0,
                      ![t].relayed = FALSE,
                      ![t].raced = @ \/ (pc[t] = "idle" /\ OthersMidStep(t))]
    /\ UNCHANGED <<reader, now, slow_poll_threshold, metrics, did_poll_once,
                   instrumented_at, waker, handed, poll_now, previous, item,
                   total, h, metrics_b, monitor, snapshot, derived, loading,
                   steps>>

\* measure_poll after the swap: return if nothing was stored or the delay
\* does not fit, else scheduled_ns_total.fetch_add(scheduled_nanos)
MeasurePollTotal(t) ==
    /\ pc[t] = "swapped"
    /\ LET nanos == ScheduledNanos(instrumented_at[t], local[t].woke, now)
       IN IF nanos = None
          THEN /\ UNCHANGED <<reader, metrics, total, steps, g>>
               /\ local' = [local EXCEPT ![t] = NewLocal]
               /\ pc' = [pc EXCEPT ![t] = "claimed"]
          ELSE /\ AtomicAdd("scheduled_ns_total", nanos)
               /\ steps' = [steps EXCEPT !.scheduled_ns_total = @ + nanos,
                                         !.schedule_count = @ + 1]
               /\ g' = [g EXCEPT ![t].samples = @ + 1]
               /\ local' = [local EXCEPT ![t] = NewLocal]
               /\ pc' = [pc EXCEPT ![t] = "sample"]
    /\ UNCHANGED <<reader, now, slow_poll_threshold, did_poll_once, instrumented_at,
                   woke_at, waker, handed, poll_now, previous, item, h,
                   metrics_b, monitor, snapshot, derived, loading>>

\* measure_poll: schedule_count.fetch_add(1)
MeasurePollCount(t) ==
    /\ pc[t] = "sample"
    /\ AtomicAdd("schedule_count", 1)
    /\ pc' = [pc EXCEPT ![t] = "claimed"]
    /\ UNCHANGED <<reader, now, slow_poll_threshold, did_poll_once, instrumented_at,
                   woke_at, waker, handed, poll_now, previous, item, g, h,
                   metrics_b, monitor, snapshot, derived, local, loading,
                   steps>>

\* the field measure_poll_time counts the step in, and the field it adds
\* the duration to
PollCountField(slow) == IF slow THEN "slow_polls_count" ELSE "fast_polls_count"
PollTotalField(slow) ==
    IF slow THEN "slow_poll_ns_total" ELSE "fast_poll_ns_total"

\* mutant of MeasurePollTimeCount: the step's count and its duration are
\* added together, by one operation
MeasurePollTimeCount_Whole(t, r) ==
    /\ pc[t] = "task"
    /\ LET duration == now - poll_now[t]
           slow == duration >= slow_poll_threshold
       IN IF ~TryIntoU64Ok(duration)
          THEN /\ UNCHANGED <<reader, metrics, total, steps, local>>
               /\ poll_now' = [poll_now EXCEPT ![t] = 0]
               /\ pc' = [pc EXCEPT ![t] = IF PollRet(r) = "Ready"
                                          THEN "done" ELSE "idle"]
               /\ g' = [g EXCEPT ![t].short = FALSE,
                                 ![t].task_ret = Append(@, r),
                                 ![t].ret = Append(@, PollRet(r))]
          ELSE /\ metrics' = FetchAdd(FetchAdd(metrics, PollCountField(slow), 1),
                                      PollTotalField(slow), duration)
               /\ total' = [total EXCEPT ![PollCountField(slow)] = @ + 1,
                                         ![PollTotalField(slow)] = @ + duration]
               /\ poll_now' = poll_now
               /\ steps' = [steps EXCEPT ![PollCountField(slow)] = @ + 1,
                                         ![PollTotalField(slow)] = @ + duration]
               /\ local' = [local EXCEPT ![t] = [woke |-> 0, nanos |-> 0,
                                                 slow |-> slow, ret |-> r]]
               /\ pc' = [pc EXCEPT ![t] = "timed"]
               /\ g' = [g EXCEPT ![t].short = @ /\ ~slow,
                                 ![t].counted = @ + 1,
                                 ![t].task_ret = Append(@, r)]
    /\ UNCHANGED <<reader, now, slow_poll_threshold, did_poll_once, instrumented_at,
                   woke_at, waker, handed, previous, item, h, metrics_b,
                   monitor, snapshot, derived, loading>>

\* the wrapped future's poll returned r: measure_poll_time(now.elapsed())
\* returns if the duration does not fit, else counts the step as slow or
\* fast with its first fetch_add
MeasurePollTimeCount(t, r) ==
    /\ pc[t] = "task"
    /\ LET duration == now - poll_now[t]
           slow == duration >= slow_poll_threshold
       IN IF ~TryIntoU64Ok(duration)
          THEN /\ UNCHANGED <<reader, metrics, total, steps, local>>
               /\ poll_now' = [poll_now EXCEPT ![t] = 0]
               /\ pc' = [pc EXCEPT ![t] = IF PollRet(r) = "Ready"
                                          THEN "done" ELSE "idle"]
               /\ g' = [g EXCEPT ![t].short = FALSE,
                                 ![t].task_ret = Append(@, r),
                                 ![t].ret = Append(@, PollRet(r))]
          ELSE /\ AtomicAdd(PollCountField(slow), 1)
               /\ poll_now' = poll_now
               /\ steps' = [steps EXCEPT ![PollCountField(slow)] = @ + 1,
                                         ![PollTotalField(slow)] = @ + duration]
               /\ local' = [local EXCEPT ![t] = [woke |-> 0, nanos |-> duration,
                                                 slow |-> slow, ret |-> r]]
               /\ pc' = [pc EXCEPT ![t] = "timed"]
               /\ g' = [g EXCEPT ![t].short = @ /\ ~slow,
                                 ![t].counted = @ + 1,
                                 ![t].task_ret = Append(@, r)]
    /\ UNCHANGED <<reader, now, slow_poll_threshold, did_poll_once, instrumented_at,
                   woke_at, waker, handed, previous, item, h, metrics_b,
                   monitor, snapshot, derived, loading>>

\* measure_poll_time: the second fetch_add adds polled_nanos to the total
\* of the same branch; Instrumented::poll returns
MeasurePollTimeTotal(t) ==
    /\ pc[t] = "timed"
    /\ AtomicAdd(PollTotalField(local[t].slow), local[t].nanos)
    /\ pc' = [pc EXCEPT ![t] = IF PollRet(local[t].ret) = "Ready"
                               THEN "done" ELSE "idle"]
    /\ g' = [g EXCEPT ![t].ret = Append(@, PollRet(local[t].ret))]
    /\ local' = [local EXCEPT ![t] = NewLocal]
    /\ poll_now' = [poll_now EXCEPT ![t] = 0]
    /\ UNCHANGED <<reader, now, slow_poll_threshold, did_poll_once, instrumented_at,
                   woke_at, waker, handed, previous, item, h,
                   metrics_b, monitor, snapshot, derived, loading, steps>>

\* one load of RawMetrics::metrics (called by the iterator's next()); with
\* the last load the TaskMetrics is complete and next() finishes
MetricsLoad ==
    /\ h.advances < MaxReads
    /\ LET f == LoadOrder[loading.n + 1]
           m == [loading.m EXCEPT ![f] = metrics[f]]
           m_total == [loading.m_total EXCEPT ![f] = total[f]]
           latest == Metrics(m)
           next == IF previous # <<>> THEN Sub(latest, previous[1]) ELSE latest
       IN IF loading.n + 1 < Len(LoadOrder)
          THEN /\ loading' = [n |-> loading.n + 1, m |-> m,
                              m_total |-> m_total]
               /\ UNCHANGED <<previous, item, h>>
          ELSE /\ loading' = NewLoading
               /\ previous' = <<latest>>
               /\ item' = <<next>>
               /\ h' = [advances |-> h.advances + 1,
                        read |-> <<latest>>,
                        read_total |-> <<Metrics(m_total)>>,
                        older |-> h.read,
                        older_total |-> h.read_total,
                        sum |-> SumItems(h.sum, item'[1])]
    /\ UNCHANGED <<reader, now, slow_poll_threshold, metrics, pc, did_poll_once,
                   instrumented_at, woke_at, waker, handed, poll_now, total,
                   g, metrics_b, monitor, snapshot, derived, local, steps>>

\* the clock advances between the steps of a task and while the wrapped
\* future runs, not between the atomic operations of the wrapper's code
AtomicTick ==
    /\ \A t \in Tasks : pc[t] \in {"new", "idle", "task", "done"}
    /\ Tick

\* ---- monitor handles: two constructions and a clone
\* mutant of Clone: the clone gets a registry of its own
Clone_OtherRegistry(mon) == IF mon = "A" THEN "B" ELSE "A"

\* #[derive(Clone)] on TaskMonitor clones the Arc<RawMetrics>: the clone
\* points at the registry of the original
Clone(mon) == mon

\* the registry each handle points at: handle 1 is constructed, handle 2 is
\* its clone, handle 3 is constructed separately
Monitors == <<"A", Clone("A"), "B">>

\* history: the construction each handle descends from
Origin == <<1, 1, 2>>

\* TaskMonitor::instrument called on handle hd
InstrumentVia(t, hd) ==
    /\ pc[t] = "new"
    /\ \A u \in Tasks : u < t => pc[u] # "new"
    /\ pc' = [pc EXCEPT ![t] = "idle"]
    /\ did_poll_once' = [did_poll_once EXCEPT ![t] = FALSE]
    /\ instrumented_at' = [instrumented_at EXCEPT ![t] = now]
    /\ woke_at' = [woke_at EXCEPT ![t] = 0]
    /\ waker' = [waker EXCEPT ![t] = NoWaker]
    /\ monitor' = [monitor EXCEPT ![t] = Monitors[hd]]
    /\ g' = [g EXCEPT ![t].via = hd]
    /\ UNCHANGED <<reader, now, slow_poll_threshold, metrics, handed, poll_now,
                   previous, item, total, h,
                   metrics_b, snapshot, derived,
                   local, loading, steps>>

\* TaskMonitor::cumulative called on handle hd
Cumulative(hd) == Metrics(IF Monitors[hd] = "A" THEN metrics ELSE metrics_b)

\* a step of a task of either monitor begins
ClonesEnter(t, w) ==
    /\ Polls < MaxPolls
    /\ LayerEnter(t, w)

\* ---- a second reader of the monitor
\* mutant of IntervalsNextOther: the baseline is kept in the monitor, one
\* `previous` for all the iterators it returned
IntervalsNextOther_SharedBaseline ==
    /\ h.advances + reader.advances + reader.calls < MaxAdvances
    /\ LET latest == Metrics(metrics)
           next == IF previous # <<>> THEN Sub(latest, previous[1]) ELSE latest
       IN /\ previous' = <<latest>>
          /\ reader' = [reader EXCEPT !.previous = <<latest>>,
                                      !.advances = @ + 1]
          /\ snapshot' = <<next>>
    /\ UNCHANGED <<now, slow_poll_threshold, metrics, pc, did_poll_once,
                   instrumented_at, woke_at, waker, handed, poll_now,
                   item, total, g, h,
                   metrics_b, monitor, derived,
                   local, loading, steps>>

\* one `next()` of a second iterator returned by TaskMonitor::intervals on
\* the same monitor: `previous` is a local of the call of intervals(), moved
\* into the closure
IntervalsNextOther ==
    /\ h.advances + reader.advances + reader.calls < MaxAdvances
    /\ LET latest == Metrics(metrics)
           next == IF reader.previous # <<>>
                   THEN Sub(latest, reader.previous[1]) ELSE latest
       IN /\ reader' = [reader EXCEPT !.previous = <<latest>>,
                                      !.advances = @ + 1]
          /\ snapshot' = <<next>>
    /\ UNCHANGED <<now, slow_poll_threshold, metrics, pc, did_poll_once,
                   instrumented_at, woke_at, waker, handed, poll_now,
                   previous, item, total, g, h,
                   metrics_b, monitor, derived,
                   local, loading, steps>>

\* a caller calls TaskMonitor::cumulative on the monitor and keeps the value
CallCumulative ==
    /\ reader.calls < MaxReads
    /\ h.advances + reader.advances + reader.calls < MaxAdvances
    /\ snapshot' = <<Cumulative(1)>>
    /\ reader' = [reader EXCEPT !.calls = @ + 1]
    /\ UNCHANGED <<now, slow_poll_threshold, metrics, pc, did_poll_once,
                   instrumented_at, woke_at, waker, handed, poll_now,
                   previous, item, total, g, h,
                   metrics_b, monitor, derived,
                   local, loading, steps>>

\* the waker the scheduler supplies to the step in progress of task t: a
\* waker of its own for every step, W_k for step k
StepWaker(t) == g[t].polls

\* the monitor was constructed with the nonzero threshold
InitNonzero ==
    /\ Init
    /\ slow_poll_threshold = MaxThreshold

\* a notification where the notifications are few
WakeFew(t) ==
    /\ Notifies < MaxWakes
    /\ Wake(t)

\* the tasks of one monitor, their scheduler and the holders of their
\* substituted notifiers
TaskNext ==
    \/ Tick
    \/ \E t \in Tasks : Instrument(t)
    \/ \E t \in Tasks, w \in Wakers : PollEnter(t, w)
    \/ \E t \in Tasks : WakeFew(t)
    \/ \E t \in Tasks, r \in {"Pending", "Ready"} : PollReturn(t, r)
    \/ \E t \in Tasks : DropTask(t)

Next == TaskNext

Spec == InitNonzero /\ [][Next]_vars

\* one task of a monitor built with either threshold, its scheduler and the
\* holders of its substituted notifier
TaskStep ==
    \/ Tick
    \/ Instrument(1)
    \/ \E w \in Wakers : PollEnter(1, w)
    \/ Wake(1)
    \/ \E r \in {"Pending", "Ready"} : PollReturn(1, r)

SpecTask == Init /\ [][TaskStep]_vars

\* the monitor with one instrumented task and one interval iterator
IntervalsStep ==
    \/ Tick
    \/ Instrument(1)
    \/ \E w \in Wakers : PollEnter(1, w)
    \/ Wake(1)
    \/ \E r \in {"Pending", "Ready"} : PollReturn(1, r)
    \/ IntervalsNext

SpecIntervals == InitNonzero /\ [][IntervalsStep]_vars

\* one task, its scheduler and the holders of its substituted notifier,
\* interleaved at the granularity of the atomic operations
RelayStep ==
    \/ Tick
    \/ Instrument(1)
    \/ PollClaim(1)
    \/ \E w \in Wakers : PollRegister(1, w)
    \/ PollInner(1)
    \/ \E r \in {"Pending", "Ready"} : PollReturn(1, r)
    \/ WakeMeasure(1)
    \/ WakeRelay(1)

SpecRelay == Init /\ [][RelayStep]_vars

\* a future wrapped by monitor B or by monitor A (task 1) and then by
\* monitor A (task 2)
InitNested ==
    /\ now = 0
    /\ slow_poll_threshold \in Thresholds
    /\ metrics = NewRawMetrics
    /\ pc = [t \in Tasks |-> "new"]
    /\ did_poll_once = [t \in Tasks |-> FALSE]
    /\ instrumented_at = [t \in Tasks |-> 0]
    /\ woke_at = [t \in Tasks |-> 0]
    /\ waker = [t \in Tasks |-> NoWaker]
    /\ handed = [t \in Tasks |-> FALSE]
    /\ poll_now = [t \in Tasks |-> 0]
    /\ previous = <<>>
    /\ item = <<>>
    /\ total = NewRawMetrics
    /\ g = [t \in Tasks |-> NewG]
    /\ h = NewH
    /\ metrics_b = NewRawMetrics
    /\ monitor \in {[t \in Tasks |-> IF t = 1 THEN m ELSE "A"] : m \in {"A", "B"}}
    /\ snapshot = <<>>
    /\ derived = <<>>
    /\ local = [t \in Tasks |-> NewLocal]
    /\ loading = NewLoading
    /\ steps = NewRawMetrics
    /\ reader = NewReader

NestedStep ==
    \/ NestedTick
    \/ Instrument(1)
    \/ Instrument(2)
    \/ \E w \in Wakers : OuterEnter(w)
    \/ InnerEnter
    \/ \E r \in {"Pending", "Ready"} : InnerReturn(r)
    \/ OuterReturn
    \/ NestedWake

SpecNested == InitNested /\ [][NestedStep]_vars

\* a caller holds a TaskMetrics value: any combination of field values
InitDerived ==
    /\ now = 0
    /\ slow_poll_threshold \in Thresholds
    /\ metrics = NewRawMetrics
    /\ pc = [t \in Tasks |-> "new"]
    /\ did_poll_once = [t \in Tasks |-> FALSE]
    /\ instrumented_at = [t \in Tasks |-> 0]
    /\ woke_at = [t \in Tasks |-> 0]
    /\ waker = [t \in Tasks |-> NoWaker]
    /\ handed = [t \in Tasks |-> FALSE]
    /\ poll_now = [t \in Tasks |-> 0]
    /\ previous = <<>>
    /\ item = <<>>
    /\ total = NewRawMetrics
    /\ g = [t \in Tasks |-> NewG]
    /\ h = NewH
    /\ metrics_b = NewRawMetrics
    /\ monitor = [t \in Tasks |-> "A"]
    /\ snapshot \in {<<s>> : s \in [SnapshotFields -> 0 .. U64Max]}
    /\ derived = <<>>
    /\ local = [t \in Tasks |-> NewLocal]
    /\ loading = NewLoading
    /\ steps = NewRawMetrics
    /\ reader = NewReader

DerivedStep ==
    \/ CallMeanTimeToFirstPoll
    \/ CallMeanTimeScheduled
    \/ CallMeanFastPolls
    \/ CallMeanSlowPolls
    \/ \E overflow_checks \in BOOLEAN : CallNumPolls(overflow_checks)

SpecDerived == InitDerived /\ [][DerivedStep]_vars

\* one task, its notifier and the iterator, at the granularity of the
\* atomic operations
TornStep ==
    \/ AtomicTick
    \/ Instrument(1)
    \/ FirstPollTime(1)
    \/ FirstPollTasksCount(1)
    \/ MeasurePollSwap(1)
    \/ MeasurePollTotal(1)
    \/ MeasurePollCount(1)
    \/ \E w \in Wakers : PollRegister(1, w)
    \/ PollInner(1)
    \/ \E r \in {"Pending", "Ready"} : MeasurePollTimeCount(1, r)
    \/ MeasurePollTimeTotal(1)
    \/ WakeFew(1)
    \/ MetricsLoad

SpecTorn == InitNonzero /\ [][TornStep]_vars

\* the tasks of one monitor step on different threads, at the granularity
\* of the atomic operations
ConcurrentStep ==
    \/ AtomicTick
    \/ \E t \in Tasks :
          \/ Instrument(t)
          \/ FirstPollTime(t)
          \/ FirstPollTasksCount(t)
          \/ MeasurePollSwap(t)
          \/ MeasurePollTotal(t)
          \/ MeasurePollCount(t)
          \/ \E w \in Wakers : PollRegister(t, w)
          \/ PollInner(t)
          \/ \E r \in {"Pending", "Ready"} : MeasurePollTimeCount(t, r)
          \/ MeasurePollTimeTotal(t)
          \/ WakeFew(t)

SpecConcurrent == InitNonzero /\ [][ConcurrentStep]_vars

\* tasks instrumented through a monitor, its clone and a second monitor
ClonesStep ==
    \/ Tick
    \/ \E t \in Tasks :
          \/ \E hd \in DOMAIN Monitors : InstrumentVia(t, hd)
          \/ \E w \in Wakers : ClonesEnter(t, w)
          \/ \E r \in {"Pending", "Ready"} : LayerReturn(t, r)

SpecClones == Init /\ [][ClonesStep]_vars

\* one task at the granularity of SpecRelay, every step of which is given
\* a waker of its own
WakersStep ==
    \/ Tick
    \/ Instrument(1)
    \/ PollClaim(1)
    \/ PollRegister(1, StepWaker(1))
    \/ PollInner(1)
    \/ \E r \in {"Pending", "Ready"} : PollReturn(1, r)
    \/ WakeMeasure(1)
    \/ WakeRelay(1)

SpecWakers == Init /\ [][WakersStep]_vars

\* one task, two interval iterators of its monitor and a caller of
\* cumulative(); the monitor is built with the nonzero threshold
ReadersStep ==
    \/ Tick
    \/ Instrument(1)
    \/ \E w \in Wakers : PollEnter(1, w)
    \/ WakeFew(1)
    \/ \E r \in {"Pending", "Ready"} : PollReturn(1, r)
    \/ IntervalsNext
    \/ IntervalsNextOther
    \/ CallCumulative

SpecReaders == InitNonzero /\ [][ReadersStep]_vars

\* a long-lived monitor, built with the nonzero threshold: every counter has
\* reached u64::MAX ("the precipice of overflow") without having wrapped yet
InitOverflow ==
    /\ now = 0
    /\ slow_poll_threshold = MaxThreshold
    /\ metrics = [f \in Fields |-> U64Max]
    /\ pc = [t \in Tasks |-> "new"]
    /\ did_poll_once = [t \in Tasks |-> FALSE]
    /\ instrumented_at = [t \in Tasks |-> 0]
    /\ woke_at = [t \in Tasks |-> 0]
    /\ waker = [t \in Tasks |-> NoWaker]
    /\ handed = [t \in Tasks |-> FALSE]
    /\ poll_now = [t \in Tasks |-> 0]
    /\ previous = <<>>
    /\ item = <<>>
    /\ total = [f \in Fields |-> U64Max]
    /\ g = [t \in Tasks |-> NewG]
    /\ h = NewH
    /\ metrics_b = NewRawMetrics
    /\ monitor = [t \in Tasks |-> "A"]
    /\ snapshot = <<>>
    /\ derived = <<>>
    /\ local = [t \in Tasks |-> NewLocal]
    /\ loading = NewLoading
    /\ steps = NewRawMetrics
    /\ reader = NewReader

\* that monitor with one more instrumented task and one interval iterator
SpecOverflow == InitOverflow /\ [][IntervalsStep]_vars

\* ---------------------------------------------------------------- claims
\* the step is the entry of task t into an execution step
Enters(t) == pc[t] = "idle" /\ pc'[t] = "task"

\* the step is the end of an execution step of task t
Returns(t) == pc[t] = "task" /\ pc'[t] # "task"

\* the step is a notification through task t's substituted notifier
Notified(t) == g'[t].notifies = g[t].notifies + 1

\* C1, as stated: once every task has been stepped to completion,
\* tasks_count equals the number of tasks.
C1_Original ==
    (\A t \in Tasks : pc[t] = "done") => metrics.tasks_count = NumTasks % U64Modulus

\* C1, as amended: tasks_count equals (modulo the counter width) the number
\* of tasks whose first execution step began no more than u64::MAX ns after
\* their instrumentation; each such task is counted once, by its first step,
\* and no later step counts it again.
C1_TasksCountedOnce ==
    metrics.tasks_count =
        Cardinality({t \in Tasks : g[t].first_ok = 1}) % U64Modulus

\* every task completed, one of them in several steps and after a
\* notification, and every first step was in time
C1_Witness ==
    /\ \A t \in Tasks : pc[t] = "done" /\ g[t].first_ok = 1
    /\ \E t \in Tasks : g[t].polls >= 2 /\ g[t].notifies >= 1
    /\ metrics.tasks_count = NumTasks

\* C2: a step that follows at least one notification (delivered since the
\* previous claim) increments schedule_count by one and adds the time
\* elapsed since the first such notification to scheduled_ns.  Stated for
\* the steps at which every time involved fits in u64.
C2_NotifiedStepRecordsDelay ==
    [][\A t \in Tasks :
         (Enters(t) /\ g[t].pend_k >= 1
                    /\ TryIntoU64Ok(now - instrumented_at[t]))
         => /\ metrics'.schedule_count = WrappingAdd(metrics.schedule_count, 1)
            /\ metrics'.scheduled_ns_total =
                   WrappingAdd(metrics.scheduled_ns_total,
                               now - g[t].pend_since)]_vars

\* C3: of the notifications that arrive between two claims only the first
\* sets the timestamp (later ones do not overwrite it), and the next step
\* records exactly one sample.  Stated for times that fit in u64.
C3_Coalescing ==
    [][\A t \in Tasks :
         /\ (Notified(t) /\ g[t].pend_k >= 1
                         /\ TryIntoU64Ok(now - instrumented_at[t]))
            => woke_at'[t] = g[t].pend_since - instrumented_at[t]
         /\ (Enters(t) /\ g[t].pend_k >= 1
                       /\ TryIntoU64Ok(now - instrumented_at[t]))
            => g'[t].samples = g[t].samples + 1]_vars

\* C4: a stored notification timestamp is consumed by at most one step:
\* the samples a task's steps recorded, plus the timestamp still stored,
\* never exceed the timestamps stored, which never exceed the on_notify
\* calls; schedule_count is the sum of the samples and never exceeds the
\* number of on_notify calls.
C4_TimestampClaimedOnce ==
    /\ \A t \in Tasks :
         /\ g[t].samples + (IF woke_at[t] # 0 THEN 1 ELSE 0) <= g[t].stores
         /\ g[t].stores <= g[t].notifies
    /\ metrics.schedule_count =
           SumF([t \in Tasks |-> g[t].samples], NumTasks) % U64Modulus
    /\ metrics.schedule_count <= Notifies

\* two notifications were coalesced into one stored timestamp, one step
\* consumed it and a further step found nothing to consume
C4_Witness ==
    \E t \in Tasks :
        /\ pc[t] = "done"
        /\ g[t].polls = 3
        /\ g[t].notifies = 2
        /\ g[t].stores = 1
        /\ g[t].samples = 1
        /\ metrics.schedule_count = 1

\* C5, as stated: the first execution step of a task increases tasks_count
\* by 1 and leaves schedule_count and scheduled_ns unchanged.
C5_Original ==
    [][\A t \in Tasks :
         (Enters(t) /\ ~did_poll_once[t])
         => /\ metrics'.tasks_count = WrappingAdd(metrics.tasks_count, 1)
            /\ metrics'.schedule_count = metrics.schedule_count
            /\ metrics'.scheduled_ns_total = metrics.scheduled_ns_total]_vars

\* C5, as amended: the first execution step of a task never records a
\* scheduling-delay sample (schedule_count and scheduled_ns are unchanged);
\* it increases tasks_count by 1 when the time since instrumentation fits in
\* u64 ns and leaves it unchanged otherwise.
C5_FirstStepNoDelay ==
    [][\A t \in Tasks :
         (Enters(t) /\ ~did_poll_once[t])
         => /\ metrics'.tasks_count =
                   WrappingAdd(metrics.tasks_count,
                               IF now - instrumented_at[t] <= U64Max
                               THEN 1 ELSE 0)
            /\ metrics'.schedule_count = metrics.schedule_count
            /\ metrics'.scheduled_ns_total = metrics.scheduled_ns_total]_vars

\* one task was stepped exactly once, some time after its instrumentation:
\* it is counted and no delay is recorded
C5_Witness ==
    \E t \in Tasks :
        /\ Polls = 1
        /\ g[t].polls = 1
        /\ pc[t] = "done"
        /\ metrics.time_to_first_poll_ns_total > 0
        /\ metrics.tasks_count = 1
        /\ metrics.schedule_count = 0
        /\ metrics.scheduled_ns_total = 0

C7_Original ==
    [][\A t \in Tasks :
         Returns(t)
         => metrics' =
              IF now - poll_now[t] < slow_poll_threshold
              THEN [metrics EXCEPT
                      !.fast_polls_count = (@ + 1) % U64Modulus,
                      !.fast_poll_ns_total = (@ + now - poll_now[t]) % U64Modulus]
              ELSE [metrics EXCEPT
                      !.slow_polls_count = (@ + 1) % U64Modulus,
                      !.slow_poll_ns_total = (@ + now - poll_now[t]) % U64Modulus]]_vars

\* C7, as amended: a completed step whose duration fits in u64 ns goes to
\* exactly one class, fast when the duration is strictly below the
\* threshold and slow otherwise (count + 1, total + duration, the other
\* class unchanged); a step whose duration does not fit changes no counter.
C7_StepClassifiedOnce ==
    [][\A t \in Tasks :
         Returns(t)
         => metrics' =
              IF now - poll_now[t] > U64Max THEN metrics
              ELSE IF now - poll_now[t] < slow_poll_threshold
              THEN [metrics EXCEPT
                      !.fast_polls_count = (@ + 1) % U64Modulus,
                      !.fast_poll_ns_total = (@ + now - poll_now[t]) % U64Modulus]
              ELSE [metrics EXCEPT
                      !.slow_polls_count = (@ + 1) % U64Modulus,
                      !.slow_poll_ns_total = (@ + now - poll_now[t]) % U64Modulus]]_vars

\* the only step so far took exactly the (nonzero) threshold and is slow
C7_Witness ==
    /\ Polls = 1
    /\ \A t \in Tasks : pc[t] # "task"
    /\ slow_poll_threshold > 0
    /\ metrics.slow_polls_count = 1
    /\ metrics.slow_poll_ns_total = slow_poll_threshold
    /\ metrics.fast_polls_count = 0

\* C8: instrumenting a task, letting time pass and dropping it change no
\* registry counter: the counters change only in execution steps, and they
\* are all 0 as long as no task has been given a step.
C8_UnsteppedContributesNothing ==
    /\ []((\A t \in Tasks : ~did_poll_once[t]) => metrics = NewRawMetrics)
    /\ [][(\A t \in Tasks : ~Enters(t) /\ ~Returns(t))
          => metrics' = metrics]_vars

\* a task was instrumented, never stepped and dropped after time passed,
\* while another task ran to completion: only that one is counted
C8_Witness ==
    \E t, u \in Tasks :
        /\ pc[t] = "dropped"
        /\ ~did_poll_once[t]
        /\ now > instrumented_at[t]
        /\ pc[u] = "done"
        /\ metrics.tasks_count = 1

\* C9: the first advance of an interval iterator returns the cumulative
\* snapshot read at that advance; the n-th advance (n >= 2) returns the
\* field-wise difference modulo the counter width between the read at that
\* advance and the read at the advance before; every advance yields an item.
C9_IntervalItems ==
    h.advances >= 1
    => /\ Len(item) = 1
       /\ item[1] =
            IF h.advances = 1 THEN h.read[1]
            ELSE [f \in SnapshotFields |->
                    (h.read[1][f] - h.older[1][f]) % U64Modulus]

\* a second advance whose item is a difference across a wrapped counter
C9_Witness ==
    /\ h.advances = 2
    /\ h.older[1].num_tasks = 1
    /\ item[1] # h.read[1]
    /\ \E f \in SnapshotFields : h.read[1][f] < h.older[1][f]

\* the amount really added to counter f between the two latest reads
AddedBetween(f) == h.read_total[1][f] - h.older_total[1][f]

\* how often counter f wrapped between the two latest reads
WrapsBetween(f) ==
    (h.read_total[1][f] \div U64Modulus) - (h.older_total[1][f] \div U64Modulus)

C11_MultiWrapTooSmall ==
    h.advances >= 2
    => \A f \in SnapshotFields :
         WrapsBetween(f) >= 2
         => /\ Sub(h.read[1], h.older[1])[f] < AddedBetween(f)
            /\ Sub(h.read[1], h.older[1])[f] = AddedBetween(f) % U64Modulus
            /\ Len(item) = 1
            /\ item[1][f] = AddedBetween(f) % U64Modulus

\* a counter wrapped twice between the two reads of the iterator
C11_Witness ==
    /\ h.advances = 2
    /\ \E f \in SnapshotFields :
         /\ WrapsBetween(f) = 2
         /\ item[1][f] < AddedBetween(f)

\* the amounts the entry of task t into a step adds to the registry: the
\* first-poll sample when it is the first step and fits in u64, and the
\* scheduling delay when a timestamp is stored and the delay fits in u64
EnterAmounts(t) ==
    LET elapsed == now - instrumented_at[t]
        first == ~did_poll_once[t] /\ elapsed <= U64Max
        delay == now - (instrumented_at[t] + woke_at[t])
        sched == woke_at[t] # 0 /\ delay <= U64Max
    IN [f \in Fields |->
          CASE f = "tasks_count" -> IF first THEN 1 ELSE 0
            [] f = "time_to_first_poll_ns_total" -> IF first THEN elapsed ELSE 0
            [] f = "schedule_count" -> IF sched THEN 1 ELSE 0
            [] f = "scheduled_ns_total" -> IF sched THEN delay ELSE 0
            [] OTHER -> 0]

\* the amounts the end of a step of task t adds to the registry
ReturnAmounts(t) ==
    LET duration == now - poll_now[t]
        counted == duration <= U64Max
        slow == duration >= slow_poll_threshold
    IN [f \in Fields |->
          CASE f = "slow_polls_count" -> IF counted /\ slow THEN 1 ELSE 0
            [] f = "slow_poll_ns_total" -> IF counted /\ slow THEN duration ELSE 0
            [] f = "fast_polls_count" -> IF counted /\ ~slow THEN 1 ELSE 0
            [] f = "fast_poll_ns_total" -> IF counted /\ ~slow THEN duration ELSE 0
            [] OTHER -> 0]

\* C12: every add to the registry wraps modulo the counter width and never
\* fails: each step leaves every counter at (old value + amount) modulo the
\* width, so every counter is the sum of all amounts added to it modulo the
\* width, and a cumulative snapshot taken after a wrap is smaller than the
\* true total.
C12_AddsWrap ==
    /\ [](\A f \in Fields :
            /\ metrics[f] = total[f] % U64Modulus
            /\ (total[f] >= U64Modulus => metrics[f] < total[f]))
    /\ [][\A t \in Tasks :
            /\ Enters(t)
               => \A f \in Fields :
                    /\ metrics'[f] = (metrics[f] + EnterAmounts(t)[f]) % U64Modulus
                    /\ total'[f] = total[f] + EnterAmounts(t)[f]
            /\ Returns(t)
               => \A f \in Fields :
                    /\ metrics'[f] = (metrics[f] + ReturnAmounts(t)[f]) % U64Modulus
                    /\ total'[f] = total[f] + ReturnAmounts(t)[f]]_vars

\* a first-poll delay d was added to the counter holding u64::MAX: the
\* cumulative snapshot shows d - 1
C12_Witness ==
    \E d \in 1 .. U64Max :
        /\ total.time_to_first_poll_ns_total = U64Max + d
        /\ Metrics(metrics).total_time_to_first_poll_ns = d - 1
        /\ Metrics(metrics).num_tasks = 0

\* C13: a first execution step that begins more than u64::MAX ns after the
\* instrumentation drops the first-poll sample (time_to_first_poll_ns and
\* tasks_count are unchanged); the step still runs and first-step-done is
\* set; no later step of the task records the sample; and the duration of
\* that first step is still classified when it ends.
C13_UnrepresentableFirstPollDropped ==
    [][\A t \in Tasks :
         /\ (Enters(t) /\ ~did_poll_once[t]
                       /\ ~TryIntoU64Ok(now - instrumented_at[t]))
            => /\ metrics'.time_to_first_poll_ns_total =
                      metrics.time_to_first_poll_ns_total
               /\ metrics'.tasks_count = metrics.tasks_count
               /\ did_poll_once'[t]
               /\ pc'[t] = "task"
         /\ (Enters(t) /\ did_poll_once[t])
            => /\ metrics'.time_to_first_poll_ns_total =
                      metrics.time_to_first_poll_ns_total
               /\ metrics'.tasks_count = metrics.tasks_count
         /\ (Returns(t) /\ g[t].first_ok = 0 /\ now - poll_now[t] <= U64Max)
            => \/ /\ metrics'.fast_polls_count = (metrics.fast_polls_count + 1) % U64Modulus
                  /\ metrics'.slow_polls_count = metrics.slow_polls_count
               \/ /\ metrics'.slow_polls_count = (metrics.slow_polls_count + 1) % U64Modulus
                  /\ metrics'.fast_polls_count = metrics.fast_polls_count]_vars

\* the task's first step began too late, the task completed in two steps:
\* both steps are classified, the task is not counted and the cumulative
\* total_time_to_first_poll is zero
C13_Witness ==
    /\ pc[1] = "done"
    /\ g[1].first_ok = 0
    /\ g[1].polls = 2
    /\ metrics.fast_polls_count + metrics.slow_polls_count = 2
    /\ Metrics(metrics).num_tasks = 0
    /\ Metrics(metrics).total_time_to_first_poll_ns = 0

\* C14: a notification delivered when the time since instrumentation does
\* not fit in u64 leaves the stored timestamp unchanged, and is relayed all
\* the same: the AtomicWaker slot is emptied and the scheduler-supplied
\* waker registered in it is invoked.
C14_UnrepresentableNotifyRelayed ==
    [][\A t \in Tasks :
         (Notified(t) /\ ~TryIntoU64Ok(now - instrumented_at[t]))
         => /\ woke_at'[t] = woke_at[t]
            /\ g'[t].stores = g[t].stores
            /\ waker'[t] = NoWaker
            /\ g'[t].relays =
                   g[t].relays + (IF waker[t] \in Wakers THEN 1 ELSE 0)]_vars

\* the only notification of a task came too late to be timestamped and was
\* relayed to the waker its step had registered
C14_Witness ==
    \E t \in Tasks :
        /\ g[t].notifies = 1
        /\ g[t].pend_since - instrumented_at[t] > U64Max
        /\ g[t].stores = 0
        /\ woke_at[t] = 0
        /\ g[t].relays = 1
        /\ waker[t] = NoWaker

\* the step is an AtomicWaker::wake of task t's substituted notifier
Relays(t) == g'[t].waking < g[t].waking

\* C15, as stated: whenever the substituted notifier is invoked, a
\* scheduler-supplied downstream notifier is invoked.
C15_Original ==
    [][\A t \in Tasks : Relays(t) => g'[t].relays = g[t].relays + 1]_vars

\* C15, as amended: under every interleaving, once a notification that
\* arrived after the wrapped future was last polled has run to its end, a
\* scheduler-supplied notifier has been invoked since the task's latest
\* step began, unless a step is in progress that has not polled the wrapped
\* future yet; each AtomicWaker::wake invokes the waker the slot holds, and
\* finds none only after an earlier invocation emptied the slot.
C15_NotificationsNotLost ==
    /\ [](\A t \in Tasks :
            (g[t].unseen /\ g[t].waking = 0 /\ pc[t] \in {"idle", "task"})
            => g[t].relayed)
    /\ [][\A t \in Tasks :
            Relays(t)
            => /\ waker'[t] = NoWaker
               /\ g'[t].relays = g[t].relays + (IF waker[t] \in Wakers THEN 1 ELSE 0)
               /\ (waker[t] = NoWaker => g[t].relays >= 1)]_vars

\* a notification arrived between a step's claim and its registration, when
\* an earlier notification had emptied the slot: it invoked no notifier, and
\* the wrapped future was polled after it in that same step
C15_Witness ==
    /\ pc[1] = "task"
    /\ g[1].polls = 2
    /\ g[1].notifies = 2
    /\ g[1].relays = 1
    /\ g[1].waking = 0
    /\ g[1].pend_k = 1
    /\ ~g[1].unseen
    /\ ~g[1].relayed

\* steps counted (as fast or as slow) by registry m, modulo the counter width
CountedSteps(m) == (m.fast_polls_count + m.slow_polls_count) % U64Modulus

\* 1 when the first step of wrap t was in time to be counted, else 0
CountsTask(t) == IF g[t].first_ok = 1 THEN 1 ELSE 0

\* C16, as stated: once the nested task has completed, wrapped by B then by
\* A both monitors show tasks_count = 1 and the same number of counted
\* steps; wrapped twice by A, A shows tasks_count = 2.
C16_Original ==
    (pc[1] = "done" /\ pc[2] = "done")
    => IF monitor[1] = "B"
       THEN /\ metrics.tasks_count = 1
            /\ metrics_b.tasks_count = 1
            /\ CountedSteps(metrics) = CountedSteps(metrics_b)
       ELSE metrics.tasks_count = 2 % U64Modulus

\* C16, as amended: every wrap accounts independently, to the registry of
\* its own monitor only: a wrap counts the task when its first step began
\* within u64::MAX ns of its instrumentation and counts each of its steps
\* whose duration fits in u64.  Wrapped by B then by A, each registry shows
\* exactly its own wrap's counts; wrapped twice by A, A shows the sum of
\* both wraps' counts (no deduplication).  When the nested task completes
\* within u64::MAX ns of its instrumentation that is tasks_count = 1 and the
\* same number of steps on A and on B, respectively tasks_count = 2.
C16_LayersAccountIndependently ==
    /\ monitor[1] = "B"
       => /\ metrics.tasks_count = CountsTask(2)
          /\ metrics_b.tasks_count = CountsTask(1)
          /\ CountedSteps(metrics) = g[2].counted % U64Modulus
          /\ CountedSteps(metrics_b) = g[1].counted % U64Modulus
          /\ metrics.schedule_count = g[2].samples % U64Modulus
          /\ metrics_b.schedule_count = g[1].samples % U64Modulus
    /\ monitor[1] = "A"
       => /\ metrics.tasks_count = (CountsTask(1) + CountsTask(2)) % U64Modulus
          /\ CountedSteps(metrics) = (g[1].counted + g[2].counted) % U64Modulus
          /\ metrics_b = NewRawMetrics
    /\ (pc[1] = "done" /\ pc[2] = "done" /\ now <= U64Max)
       => /\ CountsTask(1) = 1
          /\ CountsTask(2) = 1
          /\ g[1].counted = g[2].counted
          /\ g[1].counted = g[2].polls

\* wrapped by B then by A, the nested task completed in two steps after a
\* notification: both monitors count one task, two steps and one delay
C16_Witness ==
    /\ monitor[1] = "B"
    /\ pc[1] = "done"
    /\ pc[2] = "done"
    /\ g[2].polls = 2
    /\ g[1].notifies = 1
    /\ metrics.tasks_count = 1
    /\ metrics_b.tasks_count = 1
    /\ CountedSteps(metrics) = 2
    /\ CountedSteps(metrics_b) = 2
    /\ metrics.schedule_count = 1
    /\ metrics_b.schedule_count = 1

\* the count field and the total field a mean is derived from
CountField(fn) ==
    CASE fn = "mean_time_to_first_poll" -> "num_tasks"
      [] fn = "mean_time_scheduled" -> "num_scheduled"
      [] fn = "mean_fast_polls" -> "num_fast_polls"
      [] fn = "mean_slow_polls" -> "num_slow_polls"

TotalField(fn) ==
    CASE fn = "mean_time_to_first_poll" -> "total_time_to_first_poll_ns"
      [] fn = "mean_time_scheduled" -> "total_time_scheduled_ns"
      [] fn = "mean_fast_polls" -> "total_time_fast_poll_ns"
      [] fn = "mean_slow_polls" -> "total_time_slow_poll_ns"

Means ==
    {"mean_time_to_first_poll", "mean_time_scheduled", "mean_fast_polls",
     "mean_slow_polls"}

\* C17: for every snapshot the four means are total: they never panic (no
\* division by zero for any count) and are zero when their count field is 0.
C17_MeansTotal ==
    (derived # <<>> /\ derived[1].fn \in Means)
    => /\ ~derived[1].out.panicked
       /\ snapshot[1][CountField(derived[1].fn)] = 0
          => derived[1].out.value = 0

\* C18: for every snapshot whose count field is nonzero, each mean is its
\* total divided (integer division) by the full value of its count field.
C18_MeansAreQuotients ==
    (/\ derived # <<>>
     /\ derived[1].fn \in Means
     /\ snapshot[1][CountField(derived[1].fn)] > 0)
    => derived[1].out =
           Returned(snapshot[1][TotalField(derived[1].fn)]
                    \div snapshot[1][CountField(derived[1].fn)])

\* C19: for every snapshot num_polls() yields a value, the sum of
\* num_fast_polls and num_slow_polls (modulo the width when it exceeds it),
\* and never panics.
C19_NumPollsTotal ==
    (derived # <<>> /\ derived[1].fn = "num_polls")
    => /\ ~derived[1].out.panicked
       /\ derived[1].out.value =
              (snapshot[1].num_fast_polls + snapshot[1].num_slow_polls)
              % U64Modulus

\* C20: once a task has completed it stays completed and no registry
\* counter changes on its account: a call of its substituted notifier, kept
\* by the scheduler or an event source, changes no counter, and whatever
\* changes a counter afterwards is a step of another task.
C20_NoUpdatesAfterCompletion ==
    [][\A t \in Tasks :
         pc[t] = "done"
         => /\ pc'[t] = "done"
            /\ Notified(t) => metrics' = metrics
            /\ metrics' # metrics
               => \E u \in Tasks \ {t} : Enters(u) \/ Returns(u)]_vars

\* a completed task's notifier was invoked after completion: the timestamp
\* it stored is never claimed and no scheduling sample exists
C20_Witness ==
    \E t \in Tasks :
        /\ pc[t] = "done"
        /\ g[t].late = g[t].notifies
        /\ g[t].late >= 1
        /\ woke_at[t] # 0
        /\ g[t].relays = 1
        /\ metrics.schedule_count = 0
        /\ metrics.scheduled_ns_total = 0

\* the step drops task t
Drops(t) == pc[t] # "dropped" /\ pc'[t] = "dropped"

\* C21: dropping a task that has not completed (never stepped, suspended,
\* or notified and not yet stepped again) changes no registry counter and
\* claims no stored timestamp; afterwards the task is never stepped, calls
\* of its notifier change no counter, and every later change of a counter
\* is a step of another task.
C21_DropLeavesCounters ==
    [][\A t \in Tasks :
         /\ Drops(t)
            => /\ metrics' = metrics
               /\ woke_at'[t] = woke_at[t]
               /\ g'[t].samples = g[t].samples
         /\ pc[t] = "dropped"
            => /\ pc'[t] = "dropped"
               /\ Notified(t) => metrics' = metrics
               /\ metrics' # metrics
                  => \E u \in Tasks \ {t} : Enters(u) \/ Returns(u)]_vars

\* a task was stepped, notified and then dropped with the notification
\* unclaimed, and another task was dropped without ever being stepped: the
\* registry shows the one step performed and no scheduling sample
C21_Witness ==
    \E t, u \in Tasks :
        /\ pc[t] = "dropped"
        /\ g[t].polls = 1
        /\ woke_at[t] # 0
        /\ g[t].samples = 0
        /\ pc[u] = "dropped"
        /\ ~did_poll_once[u]
        /\ metrics.tasks_count = 1
        /\ CountedSteps(metrics) = 1
        /\ metrics.schedule_count = 0
        /\ metrics.scheduled_ns_total = 0

\* task t is inside Instrumented::poll
InStep(t) == pc[t] \in {"claimed", "registered", "task"}

\* C22: the results Instrumented::poll returned are, in order, the results
\* the wrapped future returned; every step of the wrapper that returned ran
\* exactly one step of the wrapped future, a step in progress at most one;
\* and the wrapper is finished exactly when the wrapped future returned
\* Ready.
C22_SameResults ==
    \A t \in Tasks :
        /\ g[t].ret = g[t].task_ret
        /\ Len(g[t].ret) = g[t].polls - (IF InStep(t) THEN 1 ELSE 0)
        /\ g[t].inner = g[t].polls - (IF pc[t] \in {"claimed", "registered"}
                                      THEN 1 ELSE 0)
        /\ pc[t] = "done"
           <=> (g[t].task_ret # <<>>
                /\ g[t].task_ret[Len(g[t].task_ret)] = "Ready")
        /\ \A i \in 1 .. Len(g[t].task_ret) - 1 : g[t].task_ret[i] = "Pending"

\* the wrapped future returned Pending twice and then Ready, and the
\* wrapper returned the same
C22_Witness ==
    /\ pc[1] = "done"
    /\ g[1].task_ret = <<"Pending", "Pending", "Ready">>
    /\ g[1].ret = <<"Pending", "Pending", "Ready">>
    /\ g[1].inner = MaxPolls

\* C23: between two successive reads of the registry, taken at any points
\* of the task's run, a counter that did not wrap has not decreased, and a
\* counter that was not added to at all reads the same.
C23_CountersMonotonic ==
    h.advances >= 2
    => \A f \in SnapshotFields :
         /\ WrapsBetween(f) = 0 => h.read[1][f] >= h.older[1][f]
         /\ AddedBetween(f) = 0 => h.read[1][f] = h.older[1][f]

\* two successive reads, the later taken while the task runs a step: a
\* counter that did not wrap reads higher, and a counter that wrapped reads
\* lower
C23_Witness ==
    /\ h.advances >= 2
    /\ pc[1] = "task"
    /\ \E f \in SnapshotFields :
          WrapsBetween(f) = 0 /\ h.read[1][f] > h.older[1][f]
    /\ \E f \in SnapshotFields :
          WrapsBetween(f) > 0 /\ h.read[1][f] < h.older[1][f]

\* the tasks instrumented through a handle descending from the same
\* construction as handle hd
TasksOf(hd) == {t \in Tasks : g[t].via # 0 /\ Origin[g[t].via] = Origin[hd]}

\* the sum of c[t] over the tasks of ts
RECURSIVE SumOver(_, _)
SumOver(c, ts) ==
    IF ts = {} THEN 0
    ELSE LET t == CHOOSE u \in ts : TRUE
         IN c[t] + SumOver(c, ts \ {t})

\* C24: cumulative() on a monitor and on its clone return the same
\* snapshot in every state; the snapshot of a handle counts the tasks, and
\* the steps of the tasks, instrumented through that handle or through a
\* handle cloned from or into it, and nothing of the tasks instrumented
\* through a separately constructed monitor.
C24_ClonesShareRegistry ==
    /\ \A hd, he \in DOMAIN Monitors :
          Origin[hd] = Origin[he] => Cumulative(hd) = Cumulative(he)
    /\ \A hd \in DOMAIN Monitors :
          /\ Cumulative(hd).num_tasks =
                 Cardinality({t \in TasksOf(hd) : g[t].first_ok = 1})
                     % U64Modulus
          /\ (Cumulative(hd).num_fast_polls + Cumulative(hd).num_slow_polls)
                 % U64Modulus =
             SumOver([t \in Tasks |-> g[t].counted], TasksOf(hd))
                 % U64Modulus

\* one task was instrumented through the clone and stepped twice, another
\* through the separately constructed monitor and stepped once: the
\* original shows the first task and its steps, the other monitor the second
C24_Witness ==
    /\ g[1].via = 2
    /\ g[2].via = 3
    /\ g[1].counted = 2
    /\ g[2].counted = 1
    /\ Cumulative(1).num_tasks = 1
    /\ Cumulative(1).num_fast_polls + Cumulative(1).num_slow_polls = 2
    /\ Cumulative(3).num_tasks = 1
    /\ Cumulative(3).num_fast_polls + Cumulative(3).num_slow_polls = 1

\* C25: between the two fetch_adds of a pair the registry holds the first
\* and not the second: after measure_poll_time counted a step the step's
\* duration is still missing from the total of the same branch; after the
\* first-poll block and measure_poll added a time, tasks_count and
\* schedule_count are still one behind. Outside these windows the registry
\* holds everything the steps decided to add. A read whose loads fall into
\* a window returns such a registry (the witness).
C25_PairsNotJoint ==
    /\ \A f \in Fields : metrics[f] = total[f] % U64Modulus
    /\ pc[1] \notin {"first", "sample", "timed"} => total = steps
    /\ pc[1] = "first"
       => total = [steps EXCEPT !.tasks_count = @ - 1]
    /\ pc[1] = "sample"
       => total = [steps EXCEPT !.schedule_count = @ - 1]
    /\ pc[1] = "timed"
       => total = [steps EXCEPT ![PollTotalField(local[1].slow)] =
                                   @ - (now - poll_now[1])]

\* a read completed while the task is between the two fetch_adds of
\* measure_poll_time: the snapshot shows the step counted as fast and
\* nothing of its nonzero duration; the same snapshot, whose first load
\* preceded the step, shows a time to first poll and no task
C25_Witness ==
    /\ pc[1] = "timed"
    /\ ~local[1].slow
    /\ now - poll_now[1] > 0
    /\ steps.fast_polls_count = 1
    /\ h.advances = 1
    /\ h.read[1].num_fast_polls = 1
    /\ h.read[1].total_time_fast_poll_ns = 0
    /\ h.read[1].num_tasks = 0
    /\ h.read[1].total_time_to_first_poll_ns > 0

\* the step is the claim of task t's step: the first-poll block and
\* measure_poll
Claims(t) == pc[t] = "idle" /\ pc'[t] = "claimed"

\* C26, as stated: after its claim a step changes neither schedule_count
\* nor scheduled_ns_total, so that a notification issued after the claim
\* (by the wrapped future during the step, or later) is not counted by that
\* step; and the claim of the next step counts it. Times that do not fit in
\* u64 are left aside.
C26_LateNotificationCountedByNextStep ==
    [][\A t \in Tasks :
         /\ (InStep(t) /\ ~Notified(t))
            => /\ metrics'.schedule_count = metrics.schedule_count
               /\ metrics'.scheduled_ns_total = metrics.scheduled_ns_total
         /\ (/\ Claims(t)
             /\ g[t].pend_k >= 1
             /\ now - instrumented_at[t] <= U64Max)
            => metrics'.schedule_count =
                   (metrics.schedule_count + 1) % U64Modulus]_vars

\* C27, as stated: while the wrapped future's step k runs, a snapshot shows
\* the task counted (num_tasks = 1) and k - 1 counted steps.
C27_Original ==
    pc[1] = "task"
    => /\ Metrics(metrics).num_tasks = 1
       /\ CountedSteps(metrics) = (g[1].polls - 1) % U64Modulus

\* C27, as amended: while the wrapped future's step k runs, a snapshot
\* shows the task counted if the time to its first step fitted in u64 (and
\* its time to first poll already added), and as counted steps the earlier
\* steps whose duration fitted in u64, never step k itself; these are
\* num_tasks = 1 and k - 1 steps as long as the clock has not passed
\* u64::MAX ns since the instrumentation.
C27_StepCountedAfterReturn ==
    pc[1] = "task"
    => /\ Metrics(metrics).num_tasks = CountsTask(1)
       /\ CountedSteps(metrics) = g[1].counted % U64Modulus
       /\ g[1].counted <= g[1].polls - 1
       /\ now - instrumented_at[1] <= U64Max
          => /\ Metrics(metrics).num_tasks = 1
             /\ CountedSteps(metrics) = (g[1].polls - 1) % U64Modulus

\* the iterator was advanced from inside the first step, some time after
\* the instrumentation: the item shows one task, its time to first poll and
\* no counted step
C27_Witness ==
    /\ pc[1] = "task"
    /\ g[1].polls = 1
    /\ h.advances = 1
    /\ item[1].num_tasks = 1
    /\ item[1].total_time_to_first_poll_ns > 0
    /\ item[1].num_fast_polls + item[1].num_slow_polls = 0

\* the latest step of task t whose waker.register has run
LatestRegistered(t) ==
    IF pc[t] = "claimed" THEN g[t].polls - 1 ELSE g[t].polls

\* C28, as stated: every AtomicWaker::wake of the substituted notifier
\* invokes the waker W_k of the latest step k that registered one.
C28_Original ==
    [][\A t \in Tasks :
         Relays(t)
         => /\ LatestRegistered(t) \notin g[t].invoked
            /\ g'[t].invoked = g[t].invoked \cup {LatestRegistered(t)}]_vars

\* C28, as amended: the slot holds the waker of the latest step that
\* registered one, or nothing; an AtomicWaker::wake invokes W_k of the
\* latest registered step k unless an earlier one already invoked W_k, in
\* which case it invokes nothing; it never invokes the waker of an earlier
\* step.
C28_RelayedToLatestWaker ==
    /\ [](\A t \in Tasks : waker[t] \in {NoWaker, LatestRegistered(t)})
    /\ [][\A t \in Tasks :
            Relays(t)
            => /\ g'[t].invoked \subseteq
                      g[t].invoked \cup {LatestRegistered(t)}
               /\ LatestRegistered(t) \in g'[t].invoked
               /\ LatestRegistered(t) \in g[t].invoked
                  => g'[t].invoked = g[t].invoked]_vars

\* every notification was relayed: one to the waker of the last step but
\* one, one, after the last step registered its own, to that one; the
\* wakers of the earlier steps were overwritten and never invoked
C28_Witness ==
    /\ g[1].polls = MaxPolls
    /\ pc[1] \in {"registered", "task", "idle", "done"}
    /\ g[1].waking = 0
    /\ g[1].notifies = MaxNotifies
    /\ g[1].invoked = {MaxPolls - 1, MaxPolls}

\* C29: a step whose duration does not fit in u64 ns changes no counter
\* and returns what the wrapped future returned; a step that claims a
\* stored timestamp whose delay does not fit in u64 ns changes neither
\* schedule_count nor scheduled_ns_total, leaves woke_at at 0 and goes on
\* to poll the wrapped future.
C29_UnrepresentableSampleDropped ==
    [][\A t \in Tasks :
         /\ (Returns(t) /\ now - poll_now[t] > U64Max)
            => /\ metrics' = metrics
               /\ g'[t].ret = g'[t].task_ret
               /\ Len(g'[t].ret) = Len(g[t].ret) + 1
         /\ (/\ Enters(t)
             /\ woke_at[t] # 0
             /\ now - (instrumented_at[t] + woke_at[t]) > U64Max)
            => /\ metrics'.schedule_count = metrics.schedule_count
               /\ metrics'.scheduled_ns_total = metrics.scheduled_ns_total
               /\ woke_at'[t] = 0
               /\ g'[t].inner = g[t].inner + 1]_vars

\* the first step ran longer than u64::MAX ns and was not counted; the
\* notification stored during it was claimed by the second step more than
\* u64::MAX ns later and gave no sample; the second step polls the wrapped
\* future
C29_Witness ==
    /\ pc[1] = "task"
    /\ g[1].polls = 2
    /\ g[1].ret = <<"Pending">>
    /\ g[1].counted = 0
    /\ CountedSteps(metrics) = 0
    /\ g[1].stores = 1
    /\ g[1].samples = 0
    /\ woke_at[1] = 0
    /\ g[1].pend_k = 0
    /\ metrics.schedule_count = 0
    /\ metrics.scheduled_ns_total = 0

\* what task t still owes to counter f: the second fetch_add of the pair
\* it is in the middle of
Owed(t, f) ==
    IF pc[t] = "first" /\ f = "tasks_count" THEN 1
    ELSE IF pc[t] = "sample" /\ f = "schedule_count" THEN 1
    ELSE IF pc[t] = "timed" /\ f = PollTotalField(local[t].slow)
    THEN local[t].nanos
    ELSE 0

\* C30: under every interleaving of the atomic operations of the tasks,
\* each counter equals, modulo 2^64, the sum of what the steps decided to
\* add to it less the fetch_adds still to come of the steps in progress;
\* when no step is in progress every counter is the sum of the
\* contributions of all steps: one per counted task, one per recorded
\* delay, one per counted step.
C30_NoLostUpdate ==
    /\ \A f \in Fields :
          metrics[f] =
              (steps[f] - SumF([t \in Tasks |-> Owed(t, f)], NumTasks))
                  % U64Modulus
    /\ (\A t \in Tasks : pc[t] \in {"new", "idle", "done"})
       => /\ \A f \in Fields : metrics[f] = steps[f] % U64Modulus
          /\ metrics.tasks_count =
                 Cardinality({t \in Tasks : g[t].first_ok = 1}) % U64Modulus
          /\ metrics.schedule_count =
                 SumF([t \in Tasks |-> g[t].samples], NumTasks) % U64Modulus
          /\ CountedSteps(metrics) =
                 SumF([t \in Tasks |-> g[t].counted], NumTasks) % U64Modulus

\* both tasks finished, each having begun a step while the other was
\* between the atomic operations of one, after a notification was claimed
\* and every step was counted
C30_Witness ==
    /\ \A t \in Tasks : pc[t] = "done" /\ g[t].raced
    /\ Polls = MaxPolls
    /\ steps.tasks_count = NumTasks
    /\ steps.schedule_count >= 1
    /\ steps.fast_polls_count + steps.slow_polls_count = MaxPolls
    /\ \A f \in Fields : metrics[f] = steps[f] % U64Modulus

\* ---- C31 ----
\* execution steps that returned, over the tasks of the monitor
StepsCompleted == SumF([u \in Tasks |-> Len(g[u].ret)], NumTasks)

\* tasks that have been stepped at least once
TasksStepped == Cardinality({u \in Tasks : g[u].polls >= 1})

\* the counters of C31 have not wrapped
CountsUnwrapped ==
    \A f \in {"fast_polls_count", "slow_polls_count", "schedule_count"} :
        total[f] <= U64Max

\* C31: whenever no task is inside an execution step, the duration of every
\* completed step fitted in u64 and the counters have not wrapped,
\* fast_polls_count + slow_polls_count is the number of completed steps and
\* schedule_count is at most that number minus the number of tasks stepped
\* at least once (the first step of a task never records a delay)
C31_StepsAccounted ==
    (/\ \A t \in Tasks : pc[t] # "task"
     /\ \A t \in Tasks : g[t].counted = Len(g[t].ret)
     /\ CountsUnwrapped)
    => /\ metrics.fast_polls_count + metrics.slow_polls_count = StepsCompleted
       /\ metrics.schedule_count <= StepsCompleted - TasksStepped

\* both tasks have been stepped, three steps are complete, one of them slow,
\* and the bound on schedule_count is met with equality
C31_Witness ==
    /\ \A t \in Tasks : pc[t] # "task" /\ g[t].polls >= 1
    /\ \A t \in Tasks : g[t].counted = Len(g[t].ret)
    /\ CountsUnwrapped
    /\ StepsCompleted = MaxPolls
    /\ metrics.slow_polls_count = 1
    /\ metrics.schedule_count = StepsCompleted - TasksStepped
    /\ metrics.schedule_count >= 1

\* ---- C32 ----
\* C32: telescoping: after the k-th advance of an interval sequence
\* (k >= 1), the field-wise sum modulo 2^64 of the k items it has yielded
\* is the registry as read by that advance, whatever steps and
\* notifications happened between the advances
C32_Telescoping ==
    h.advances >= 1 => h.sum = h.read[1]

\* the sequence has advanced three times; a notified step was recorded
\* between the second and the third advance, and the registry was already
\* nonzero and different at the second one
C32_Witness ==
    /\ h.advances = MaxAdvances
    /\ MaxAdvances >= 3
    /\ item[1].num_scheduled = 1
    /\ h.older[1] # Metrics(NewRawMetrics)
    /\ h.older[1] # h.read[1]
    /\ h.sum = h.read[1]

\* ---- C33 ----
\* the item an interval sequence whose baseline is prev yields if it
\* advances now
NextItem(prev) ==
    IF prev # <<>> THEN Sub(Metrics(metrics), prev[1]) ELSE Metrics(metrics)

\* the second reader advances its sequence or calls cumulative()
OtherReads ==
    \/ reader.advances' # reader.advances
    \/ reader.calls' # reader.calls

\* C33: interval sequences of one monitor are independent: the baseline of
\* a sequence is the registry as it read it itself at its latest advance,
\* and an advance of another sequence or a call of cumulative() changes
\* neither that baseline nor the item the sequence yields at its next
\* advance
C33_SequencesIndependent ==
    /\ [](previous = h.read)
    /\ [][/\ OtherReads
             => /\ previous' = previous
                /\ NextItem(previous)' = NextItem(previous)
          /\ (h.advances' # h.advances \/ reader.calls' # reader.calls)
             => /\ reader.previous' = reader.previous
                /\ NextItem(reader.previous)' = NextItem(reader.previous)]_vars

\* both sequences have advanced, the first one twice and the second one in
\* between; their baselines differ and so do the items they would yield now
C33_Witness ==
    /\ h.advances = 2
    /\ reader.advances = 1
    /\ h.older[1] # reader.previous[1]
    /\ reader.previous[1] # previous[1]
    /\ NextItem(previous) # NextItem(reader.previous)
    /\ NextItem(previous) # Metrics(NewRawMetrics)

\* ---- C34 ----
\* C34: reading is pure observation: a call of cumulative() and an advance
\* of an interval sequence leave the eight counters, the slow-poll
\* threshold, and woke_at and the AtomicWaker slot of every task unchanged
C34_ReadsArePure ==
    [][(h.advances' # h.advances \/ OtherReads)
       => UNCHANGED <<metrics, slow_poll_threshold, woke_at, waker>>]_vars

\* both sequences have advanced and cumulative() has been called; the
\* latest advance read a nonzero registry while a notification timestamp
\* was stored, and the registry and the timestamp are still there
C34_Witness ==
    /\ h.advances >= 1
    /\ reader.advances >= 1
    /\ reader.calls >= 1
    /\ previous = <<Metrics(metrics)>>
    /\ metrics.fast_polls_count + metrics.slow_polls_count >= 1
    /\ woke_at[1] # 0
    /\ g[1].stores = 1
    /\ g[1].samples = 0

\* ---- C35 ----
\* C35: a notification changes no registry counter: the counters change
\* only in steps that begin or end an execution step; a call of the
\* substituted notifier of task t leaves every other task's woke_at and
\* AtomicWaker slot alone, changes woke_at of t only from 0 to a nonzero
\* offset, and leaves the AtomicWaker slot of t empty
C35_NotifyChangesNoCounter ==
    [][/\ \A t \in Tasks :
            Notified(t)
            => /\ metrics' = metrics
               /\ \A u \in Tasks \ {t} :
                      woke_at'[u] = woke_at[u] /\ waker'[u] = waker[u]
               /\ woke_at'[t] # woke_at[t]
                  => woke_at[t] = 0 /\ woke_at'[t] # 0
               /\ waker'[t] = NoWaker
       /\ metrics' # metrics
          => \E u \in Tasks : Enters(u) \/ Returns(u)]_vars

\* a task was notified twice at different times after a counted step: the
\* first call stored its offset and took the waker, the second changed
\* nothing
C35_Witness ==
    \E t \in Tasks :
        /\ g[t].notifies = 2
        /\ g[t].stores = 1
        /\ g[t].pend_since # None
        /\ g[t].pend_since < now
        /\ woke_at[t] = g[t].pend_since - instrumented_at[t]
        /\ waker[t] = NoWaker
        /\ metrics.fast_polls_count + metrics.slow_polls_count >= 1

\* ---- C36 ----
\* C36: wake tracking is per task: the delay samples the steps of a task
\* have recorded are at most the notifications through its own substituted
\* notifier that stored an offset; a task whose own notifier was never
\* called has woke_at = 0, keeps the waker its latest step registered and
\* has recorded no delay sample, whatever notifications the other tasks of
\* the monitor received
C36_WakeTrackingPerTask ==
    \A b \in Tasks :
        /\ g[b].samples <= g[b].stores
        /\ g[b].notifies = 0
           => /\ woke_at[b] = 0
              /\ g[b].samples = 0
              /\ g[b].polls >= 1 => waker[b] # NoWaker

\* task a was notified and its offset is stored; task b of the same monitor,
\* never notified, began its second step after that notification and
\* recorded no delay
C36_Witness ==
    \E a \in Tasks : \E b \in Tasks \ {a} :
        /\ g[a].stores = 1
        /\ woke_at[a] # 0
        /\ g[a].pend_since # None
        /\ g[b].notifies = 0
        /\ g[b].polls = 2
        /\ pc[b] = "task"
        /\ poll_now[b] > g[a].pend_since
        /\ g[b].samples = 0
        /\ metrics.schedule_count = 0
        /\ waker[b] # NoWaker

====
